---- MODULE Spec2Model ----
(***************************************************************************)
(* Course generation pipeline of app/agents/orchestrator.py.               *)
(*                                                                         *)
(* One request threads an AgentState through the graph                     *)
(*   research -> structure -> content -> finalize -> END                   *)
(* built by build_course_generation_graph; generate_course then inspects   *)
(* the last state and returns a CourseResponse or raises.                  *)
(*                                                                         *)
(* Conventions of the model                                                *)
(*  - Optional[T]: None is <<>>, a present value v is <<v>>.               *)
(*  - Text that the code builds by formatting (error messages, lesson      *)
(*    content) is a sequence of tokens; f"prefix {m}" is <<prefix>> \o m,  *)
(*    so "the message contains m" is a sub-sequence test.                  *)
(*  - Titles and the brief are never formatted into anything the pipeline  *)
(*    inspects; they are plain strings compared by equality.               *)
(*  - A Python dict keyed by run-time strings (content_data) is an         *)
(*    insertion-ordered sequence of [key, value] pairs.                    *)
(*  - The text-generation service is the environment: every call either    *)
(*    returns (the agent's parsed result is drawn from a small set of      *)
(*    values in the range of its parser) or raises with a message.         *)
(***************************************************************************)
EXTENDS Integers, Sequences, FiniteSets, TLC

VARIABLES
    pc,         \* node of the graph about to run: "research", "structure",
                \*   "content", "lessons" (content suspended at a lesson call),
                \*   "finalize", "end" (graph finished), "done"
    state,      \* the AgentState handed to the next node
    chain,      \* every AgentState of the request: the initial one, then the
                \*   state returned by each executed node, in order
    trace,      \* events of the request in order: a stage starts, a stage
                \*   invokes its agent ("call"), a stage returns
    calls,      \* collaborator invocations, in order, with their outcome
    modIdx,     \* generate_course_content: index of the module being filled
    lesIdx,     \* generate_course_content: index of the lesson being generated
    content,    \* generate_course_content: the local content_data dict
    result,     \* outcome of generate_course
    response,   \* answer of the POST /api/courses/generate handler
    text,       \* a parser's input: the raw text of a generation call
    parsed,     \* Optional: what the parser returned for text
    tasks,      \* concurrent requests: the locals of each request's coroutine
    agents,     \* the module-level agent singletons, shared by all requests
    original_module, \* Optional: the module dict handed to the review parser
    review      \* the locals of QualityAgent.review_course's coroutine

vars == <<pc, state, chain, trace, calls, modIdx, lesIdx, content, result,
          response, text, parsed, tasks, agents, original_module, review>>

\* the variables of one request's pipeline, of the parsers, of concurrent
\* requests, of the quality review
pipelineVars == <<pc, state, chain, trace, calls, modIdx, lesIdx, content, result, response>>
parserVars == <<text, parsed, original_module>>
concurrencyVars == <<tasks, agents>>
reviewVars == <<review>>

----------------------------------------------------------------------------
(* Bounds of the explored inputs *)

\* modules of a course structure, and lessons of all its modules together
MaxModules == 2
MaxLessons == 3

----------------------------------------------------------------------------
(* Optional values and Python truthiness *)

None == <<>>
Some(v) == <<v>>
IsSet(o) == o # <<>>
Val(o) == o[1]

\* truthiness of an Optional[Dict] modelled as a record: None and {} are falsy
TruthyDict(o) == IsSet(o) /\ DOMAIN Val(o) # {}

\* truthiness of an Optional text / Optional ordered dict: None and empty are falsy
TruthySeq(o) == IsSet(o) /\ Len(Val(o)) > 0

\* text t contains text m as a substring (token sequences)
Contains(t, m) ==
    \E i \in 0..(Len(t) - Len(m)) : SubSeq(t, i + 1, i + Len(m)) = m

----------------------------------------------------------------------------
(* Insertion-ordered dict: content_data *)

HasKey(d, k) == \E i \in 1..Len(d) : d[i].key = k

\* d[k] = v
DictSet(d, k, v) ==
    IF HasKey(d, k)
    THEN [i \in 1..Len(d) |-> IF d[i].key = k THEN [key |-> k, value |-> v] ELSE d[i]]
    ELSE Append(d, [key |-> k, value |-> v])

\* d.get(k, default)
DictGet(d, k, default) ==
    IF HasKey(d, k)
    THEN (CHOOSE e \in {d[i] : i \in 1..Len(d)} : e.key = k).value
    ELSE default

\* d[k].append(x)
DictAppend(d, k, x) == DictSet(d, k, Append(DictGet(d, k, <<>>), x))

----------------------------------------------------------------------------
(* AgentState *)

AgentState(brief, target_audience, course_duration, research_data, course_structure, content_data, final_course, error) ==
    [brief            |-> brief,
     target_audience  |-> target_audience,
     course_duration  |-> course_duration,
     research_data    |-> research_data,
     course_structure |-> course_structure,
     content_data     |-> content_data,
     final_course     |-> final_course,
     error            |-> error]

----------------------------------------------------------------------------
(* The environment: what the agents' generation calls can produce *)

\* messages of the failures a generation call raises with
GenFailures == {<<"timeout">>, <<"quota exceeded">>}

\* outcome of one generation call followed by the agent's parser
Returned(v) == [ok |-> TRUE, val |-> v]
Raised(m) == [ok |-> FALSE, msg |-> m]

\* results of ResearchAgent._parse_research_result: always the four keys
ResearchResults ==
    { [summary      |-> "Microfinance serves the unbanked",
       key_concepts |-> <<"microcredit", "group lending">>,
       resources    |-> <<"Journal of Microfinance", "World Bank report">>,
       insights     |-> "demand is growing"],
      [summary |-> "", key_concepts |-> <<>>, resources |-> <<>>, insights |-> ""] }

ResearchOutcomes ==
    {Returned(r) : r \in ResearchResults} \cup {Raised(<<"timeout">>)}

\* results of StructureAgent._parse_structure_result: any number of modules,
\* each titled by the first line of its block, each with any number of lessons
ModuleTitles == {"MODULE 1: Basics", "MODULE 2: History"}
LessonNames == <<"What is Microfinance?", "Key Concepts", "Origins", "Outlook">>
LessonTitle(j) == LessonNames[((j - 1) % Len(LessonNames)) + 1]

ModuleSkeleton(title, n) ==
    [title |-> title, lessons |-> [j \in 1..n |-> [title |-> LessonTitle(j), content |-> ""]]]

ModuleSkeletons == {ModuleSkeleton(t, n) : t \in ModuleTitles, n \in 0..MaxLessons}

CourseStructure(modules) ==
    [course_title       |-> "Introduction to Microfinance",
     course_description |-> "Fundamentals and applications",
     modules            |-> modules,
     rationale          |-> "from basics to history"]

RECURSIVE LessonCount(_)
LessonCount(modules) ==
    IF modules = <<>> THEN 0
    ELSE Len(Head(modules).lessons) + LessonCount(Tail(modules))

StructureResults ==
    {CourseStructure(ms) :
        ms \in {x \in UNION {[1..n -> ModuleSkeletons] : n \in 0..MaxModules} :
                    LessonCount(x) <= MaxLessons}}

StructureOutcomes ==
    {Returned(c) : c \in StructureResults} \cup {Raised(m) : m \in GenFailures}

\* results of ContentAgent._parse_content_result: content and resources
ContentResults ==
    { [content |-> <<"Microfinance is the provision of financial services">>,
       resources |-> <<"Resource 1", "Resource 2">>],
      [content |-> <<"unformatted text">>, resources |-> <<>>] }

ContentOutcomes ==
    {Returned(c) : c \in ContentResults} \cup {Raised(<<"timeout">>)}

\* the requests: brief, target_audience, course_duration
Requests ==
    { [brief |-> "Intro to Microfinance", target_audience |-> Some("beginners"),
       course_duration |-> Some("6 weeks")],
      [brief |-> "Intro to Microfinance", target_audience |-> None,
       course_duration |-> None] }

----------------------------------------------------------------------------
(* Agents *)

\* ResearchAgent.research_topic: the generation call and the parser run inside
\* a try block whose handler returns a dict with the single key "error"
research_topic(gen) ==
    IF gen.ok THEN gen.val
    ELSE [error |-> <<"Research failed: ">> \o gen.msg]

----------------------------------------------------------------------------
(* Stage functions *)

\* research_course_topic: research_topic never raises, so the handler of
\* the stage (lines 62-69) is not entered
research_course_topic(s, gen) ==
    AgentState(s.brief, s.target_audience, s.course_duration,
               Some(research_topic(gen)), None, None, None, None)

\* create_course_structure invokes its collaborator only past this check
structure_has_prerequisite(s) == TruthyDict(s.research_data)

\* create_course_structure; gen is the outcome of create_structure, which
\* re-raises what the generation call raises (gen is not read when the
\* prerequisite is missing)
create_course_structure(s, gen) ==
    IF ~structure_has_prerequisite(s)
    THEN AgentState(s.brief, s.target_audience, s.course_duration,
                    None, None, None, None,
                    Some(<<"No research data available for creating course structure">>))
    ELSE IF gen.ok
    THEN AgentState(s.brief, s.target_audience, s.course_duration,
                    s.research_data, Some(gen.val), None, None, None)
    ELSE AgentState(s.brief, s.target_audience, s.course_duration,
                    s.research_data, None, None, None,
                    Some(<<"Structure creation error: ">> \o gen.msg))

\* generate_course_content, the check of lines 121-129
content_has_prerequisite(s) == TruthyDict(s.course_structure)

\* variant: the check of course_structure is missing and the loop runs over
\* the default empty module list
content_without_check(s) ==
    AgentState(s.brief, s.target_audience, s.course_duration,
               s.research_data, s.course_structure, Some(<<>>), None, None)

content_missing_prerequisite(s) ==
    AgentState(s.brief, s.target_audience, s.course_duration,
               s.research_data, None, None, None,
               Some(<<"No course structure available for generating content">>))

\* generate_course_content, lines 140-145: from the top of the module loop at
\* module mi, run `content_data[module_title] = []` for each module up to and
\* including the first one that has a lesson; modIdx past the end: loop over
RECURSIVE enter_modules(_, _, _)
\* a variant that passes over a module whose title is already a key
enter_modules_once_per_title(cd, modules, mi) ==
    IF mi > Len(modules) THEN [content |-> cd, modIdx |-> mi]
    ELSE IF HasKey(cd, modules[mi].title) THEN enter_modules(cd, modules, mi + 1)
    ELSE LET cd2 == DictSet(cd, modules[mi].title, <<>>)
         IN IF Len(modules[mi].lessons) > 0
            THEN [content |-> cd2, modIdx |-> mi]
            ELSE enter_modules(cd2, modules, mi + 1)

enter_modules(cd, modules, mi) ==
    IF mi > Len(modules) THEN [content |-> cd, modIdx |-> mi]
    ELSE LET cd2 == DictSet(cd, modules[mi].title, <<>>)
         IN IF Len(modules[mi].lessons) > 0
            THEN [content |-> cd2, modIdx |-> mi]
            ELSE enter_modules(cd2, modules, mi + 1)

\* a variant whose entry for a failed call carries no title
lesson_entry_untitled_on_failure(lesson_title, gen) ==
    IF gen.ok
    THEN [title |-> lesson_title, content |-> gen.val.content,
          resources |-> gen.val.resources]
    ELSE [title |-> "",
          content |-> <<"Error generating content: ">> \o gen.msg,
          resources |-> <<>>]

\* generate_course_content, lines 149-172: the entry appended for one lesson
lesson_entry(lesson_title, gen) ==
    IF gen.ok
    THEN [title |-> lesson_title, content |-> gen.val.content,
          resources |-> gen.val.resources]
    ELSE [title |-> lesson_title,
          content |-> <<"Error generating content: ">> \o gen.msg,
          resources |-> <<>>]

\* a variant that writes the generated entries into the skeleton's lessons
content_return_filling_skeleton(s, cd) ==
    LET cs == Val(s.course_structure)
        filled == [cs EXCEPT !.modules =
                      [i \in 1..Len(cs.modules) |->
                          [cs.modules[i] EXCEPT !.lessons = DictGet(cd, cs.modules[i].title, <<>>)]]]
    IN AgentState(s.brief, s.target_audience, s.course_duration,
                  s.research_data, Some(filled), Some(cd), None, None)

\* generate_course_content, lines 175-184: the state returned after the loop
content_return(s, cd) ==
    AgentState(s.brief, s.target_audience, s.course_duration,
               s.research_data, s.course_structure, Some(cd), None, None)

\* a variant whose lookup ignores the letter case of the title
final_module_any_case(module_structure, content_data) ==
    LET lower(t) == IF t = "MODULE 1: Basics" THEN "module 1: basics" ELSE t
        found == {i \in 1..Len(content_data) :
                     lower(content_data[i].key) = lower(module_structure.title)}
        lesson_content_list ==
            IF found = {} THEN <<>> ELSE content_data[CHOOSE i \in found : TRUE].value
    IN [title   |-> module_structure.title,
        lessons |-> [j \in 1..Len(lesson_content_list) |->
                        [title     |-> lesson_content_list[j].title,
                         content   |-> lesson_content_list[j].content,
                         resources |-> lesson_content_list[j].resources]]]

\* finalize_course, lines 238-252: one module of the final course
final_module(module_structure, content_data) ==
    LET lesson_content_list == DictGet(content_data, module_structure.title, <<>>)
    IN [title   |-> module_structure.title,
        lessons |-> [j \in 1..Len(lesson_content_list) |->
                        [title     |-> lesson_content_list[j].title,
                         content   |-> lesson_content_list[j].content,
                         resources |-> lesson_content_list[j].resources]]]

\* a variant that reads the key concepts of the research
final_references_from_concepts(research_data) ==
    IF TruthyDict(research_data) /\ "resources" \in DOMAIN Val(research_data)
    THEN Val(research_data).key_concepts
    ELSE <<>>

\* finalize_course, lines 254-258
final_references(research_data) ==
    IF TruthyDict(research_data) /\ "resources" \in DOMAIN Val(research_data)
    THEN Val(research_data).resources
    ELSE <<>>

\* variant: both prerequisite checks are missing and absent fields read as
\* empty dicts
finalize_course_unchecked(s) ==
    LET modules_structure ==
            IF TruthyDict(s.course_structure) THEN Val(s.course_structure).modules ELSE <<>>
        content_data == IF IsSet(s.content_data) THEN Val(s.content_data) ELSE <<>>
        final_course ==
            [course_title |-> IF TruthyDict(s.course_structure)
                              THEN Val(s.course_structure).course_title ELSE "",
             description  |-> IF TruthyDict(s.course_structure)
                              THEN Val(s.course_structure).course_description ELSE "",
             modules      |-> [i \in 1..Len(modules_structure) |->
                                  final_module(modules_structure[i], content_data)],
             references   |-> final_references(s.research_data)]
    IN AgentState(s.brief, s.target_audience, s.course_duration,
                  s.research_data, s.course_structure, s.content_data,
                  Some(final_course), None)

\* a variant that reports no error when content_data is missing
finalize_course_silent_without_content(s) ==
    IF ~TruthyDict(s.course_structure)
    THEN AgentState(s.brief, s.target_audience, s.course_duration,
                    s.research_data, None, None, None,
                    Some(<<"Missing course structure for finalizing the course">>))
    ELSE IF ~TruthySeq(s.content_data)
    THEN AgentState(s.brief, s.target_audience, s.course_duration,
                    s.research_data, s.course_structure, None, None, None)
    ELSE finalize_course_unchecked(s)

finalize_course(s) ==
    IF ~TruthyDict(s.course_structure)
    THEN AgentState(s.brief, s.target_audience, s.course_duration,
                    s.research_data, None, None, None,
                    Some(<<"Missing course structure for finalizing the course">>))
    ELSE IF ~TruthySeq(s.content_data)
    THEN AgentState(s.brief, s.target_audience, s.course_duration,
                    s.research_data, s.course_structure, None, None,
                    Some(<<"Missing content data for finalizing the course">>))
    ELSE LET cs == Val(s.course_structure)
             final_course ==
                 [course_title |-> cs.course_title,
                  description  |-> cs.course_description,
                  modules      |-> [i \in 1..Len(cs.modules) |->
                                       final_module(cs.modules[i], Val(s.content_data))],
                  references   |-> final_references(s.research_data)]
         IN AgentState(s.brief, s.target_audience, s.course_duration,
                       s.research_data, s.course_structure, s.content_data,
                       Some(final_course), None)

should_end(s) ==
    IF TruthySeq(s.error) THEN "end"
    ELSE IF TruthyDict(s.final_course) THEN "end"
    ELSE "continue"

----------------------------------------------------------------------------
(* The graph and generate_course *)

\* variant: the two targets of the conditional edge are exchanged
graph_with_exchanged_targets(node, s) ==
    CASE node = "research"  -> "structure"
      [] node = "structure" -> "content"
      [] node = "content"   -> "finalize"
      [] node = "finalize"  -> IF should_end(s) = "end" THEN "finalize" ELSE "end"

\* variant: the edge from content to finalize is missing, the run stays there
graph_without_content_edge(node, s) ==
    CASE node = "research"  -> "structure"
      [] node = "structure" -> "content"
      [] node = "content"   -> "stalled"
      [] node = "finalize"  -> IF should_end(s) = "end" THEN "end" ELSE "finalize"

\* build_course_generation_graph: the node that runs after `node` returned s
build_course_generation_graph(node, s) ==
    CASE node = "research"  -> "structure"
      [] node = "structure" -> "content"
      [] node = "content"   -> "finalize"
      [] node = "finalize"  -> IF should_end(s) = "end" THEN "end" ELSE "finalize"

\* generate_course, lines 387-415: final_course converted to a CourseResponse
CourseResponse(final_course_data) ==
    [course_title |-> final_course_data.course_title,
     description  |-> final_course_data.description,
     modules      |-> [i \in 1..Len(final_course_data.modules) |->
                         [title   |-> final_course_data.modules[i].title,
                          lessons |-> [j \in 1..Len(final_course_data.modules[i].lessons) |->
                              [title     |-> final_course_data.modules[i].lessons[j].title,
                               content   |-> final_course_data.modules[i].lessons[j].content,
                               resources |-> final_course_data.modules[i].lessons[j].resources]]]],
     references   |-> final_course_data.references]

Pending == [kind |-> "pending", message |-> <<>>, course |-> None]
Raise(message) == [kind |-> "raised", message |-> message, course |-> None]
Return(course) == [kind |-> "returned", message |-> <<>>, course |-> Some(course)]

\* variant: final_course is looked at before error
generate_course_course_first(s) ==
    IF TruthyDict(s.final_course)
    THEN Return(CourseResponse(Val(s.final_course)))
    ELSE IF TruthySeq(s.error)
    THEN Raise(<<"Course generation failed: ">> \o Val(s.error))
    ELSE Raise(<<"Course generation failed: ", "No final course data available">>)

\* generate_course, lines 370-419: the decision on the graph's last state
generate_course(s) ==
    IF TruthySeq(s.error)
    THEN Raise(<<"Course generation failed: ">> \o Val(s.error))
    ELSE IF ~TruthyDict(s.final_course)
    THEN Raise(<<"Course generation failed: ", "No final course data available">>)
    ELSE Return(CourseResponse(Val(s.final_course)))

----------------------------------------------------------------------------
(* The HTTP handler, routers/course_router.py *)

\* no answer sent yet
NoResponse == [status |-> 0, body |-> None, detail |-> <<>>]

\* a variant whose detail is the failure's text alone
create_course_bare_detail(outcome) ==
    IF outcome.kind = "returned"
    THEN [status |-> 200, body |-> outcome.course, detail |-> <<>>]
    ELSE [status |-> 500, body |-> None, detail |-> outcome.message]

\* create_course answers with the course that generate_course returned
\* (FastAPI's default status), or turns what it raised into an HTTPException
create_course(outcome) ==
    IF outcome.kind = "returned"
    THEN [status |-> 200, body |-> outcome.course, detail |-> <<>>]
    ELSE [status |-> 500, body |-> None,
          detail |-> <<"Failed to generate course: ">> \o outcome.message]

----------------------------------------------------------------------------
(* The agent singletons, app/agents/orchestrator.py lines 30-36 *)

\* the objects built once at import; each keeps what BaseAgent.__init__ stored
Singletons ==
    [research  |-> [name |-> "Research Agent",  system_prompt |-> "research prompt"],
     structure |-> [name |-> "Structure Agent", system_prompt |-> "structure prompt"],
     content   |-> [name |-> "Content Agent",   system_prompt |-> "content prompt"],
     quality   |-> [name |-> "Quality Agent",   system_prompt |-> "quality prompt"]]

\* values of the variables a specification does not move
NoParser == text = <<>> /\ parsed = None /\ original_module = None
NoConcurrency == tasks = <<>> /\ agents = Singletons
NoReview == review = None

----------------------------------------------------------------------------
(* Actions: one request *)

StageEvent(ev, stage) == [ev |-> ev, stage |-> stage]

\* one invocation of an agent by a stage, with what it was given and how it ended
Call(agent, module_title, lesson_title, research_data, gen) ==
    [agent         |-> agent,
     module_title  |-> module_title,
     lesson_title  |-> lesson_title,
     research_data |-> research_data,
     outcome       |-> gen]

\* a variant in which the node writes its result into the state object it
\* was given and returns that object
NodeReturnsInPlace(node, s) ==
    /\ state' = s
    /\ chain' = Append([chain EXCEPT ![Len(chain)] = s], s)
    /\ pc' = build_course_generation_graph(node, s)

\* a node returns s, a new AgentState: the graph stores it and selects the
\* next node; the state the node was given is left as it was
NodeReturns(node, s) ==
    /\ state' = s
    /\ chain' = Append(chain, s)
    /\ pc' = build_course_generation_graph(node, s)

\* generate_course, lines 355-368: the initial state enters the graph at "research"
Init ==
    \E r \in Requests :
        /\ state = AgentState(r.brief, r.target_audience, r.course_duration,
                              None, None, None, None, None)
        /\ chain = <<state>>
        /\ pc = "research"
        /\ trace = <<>>
        /\ calls = <<>>
        /\ modIdx = 0
        /\ lesIdx = 0
        /\ content = <<>>
        /\ result = Pending
        /\ response = NoResponse
        /\ NoParser
        /\ NoReview
        /\ NoConcurrency

Research ==
    /\ pc = "research"
    /\ \E gen \in ResearchOutcomes :
        /\ NodeReturns("research", research_course_topic(state, gen))
        /\ calls' = Append(calls, Call("research", "", "", None, gen))
    /\ trace' = trace \o <<StageEvent("start", "research"), StageEvent("call", "research"),
                           StageEvent("return", "research")>>
    /\ UNCHANGED <<modIdx, lesIdx, content, result, response, parserVars, concurrencyVars, reviewVars>>

Structure ==
    /\ pc = "structure"
    /\ IF structure_has_prerequisite(state)
       THEN \E gen \in StructureOutcomes :
               /\ NodeReturns("structure", create_course_structure(state, gen))
               /\ calls' = Append(calls, Call("structure", "", "", state.research_data, gen))
               /\ trace' = trace \o <<StageEvent("start", "structure"),
                                      StageEvent("call", "structure"),
                                      StageEvent("return", "structure")>>
       ELSE /\ NodeReturns("structure", create_course_structure(state, Raised(<<>>)))
            /\ trace' = trace \o <<StageEvent("start", "structure"),
                                   StageEvent("return", "structure")>>
            /\ UNCHANGED calls
    /\ UNCHANGED <<modIdx, lesIdx, content, result, response, parserVars, concurrencyVars, reviewVars>>

\* generate_course_content returns cd as content_data
ContentReturns(cd) ==
    /\ NodeReturns("content", content_return(state, cd))
    /\ modIdx' = 0
    /\ lesIdx' = 0
    /\ content' = <<>>

\* generate_course_content from its entry to its first lesson call, or to its
\* return when there is none
ContentStart ==
    /\ pc = "content"
    /\ IF ~content_has_prerequisite(state)
       THEN /\ NodeReturns("content", content_missing_prerequisite(state))
            /\ trace' = trace \o <<StageEvent("start", "content"), StageEvent("return", "content")>>
            /\ UNCHANGED <<modIdx, lesIdx, content>>
       ELSE LET modules == Val(state.course_structure).modules
                e == enter_modules(<<>>, modules, 1)
            IN IF e.modIdx > Len(modules)
               THEN /\ ContentReturns(e.content)
                    /\ trace' = trace \o <<StageEvent("start", "content"),
                                           StageEvent("return", "content")>>
               ELSE /\ pc' = "lessons"
                    /\ content' = e.content
                    /\ modIdx' = e.modIdx
                    /\ lesIdx' = 1
                    /\ trace' = Append(trace, StageEvent("start", "content"))
                    /\ UNCHANGED <<state, chain>>
    /\ UNCHANGED <<calls, result, response, parserVars, concurrencyVars, reviewVars>>

\* generate_course_content from one lesson call to the next, or to its return
ContentLesson ==
    /\ pc = "lessons"
    /\ LET modules == Val(state.course_structure).modules
           module == modules[modIdx]
           lesson_title == module.lessons[lesIdx].title
       IN \E gen \in ContentOutcomes :
           /\ calls' = Append(calls, Call("content", module.title, lesson_title,
                                          state.research_data, gen))
           /\ LET cd == DictAppend(content, module.title, lesson_entry(lesson_title, gen))
              IN IF lesIdx < Len(module.lessons)
                 THEN /\ content' = cd
                      /\ lesIdx' = lesIdx + 1
                      /\ trace' = Append(trace, StageEvent("call", "content"))
                      /\ UNCHANGED <<pc, state, chain, modIdx>>
                 ELSE LET e == enter_modules(cd, modules, modIdx + 1)
                      IN IF e.modIdx > Len(modules)
                         THEN /\ ContentReturns(e.content)
                              /\ trace' = trace \o <<StageEvent("call", "content"),
                                                     StageEvent("return", "content")>>
                         ELSE /\ content' = e.content
                              /\ modIdx' = e.modIdx
                              /\ lesIdx' = 1
                              /\ trace' = Append(trace, StageEvent("call", "content"))
                              /\ UNCHANGED <<pc, state, chain>>
    /\ UNCHANGED <<result, response, parserVars, concurrencyVars, reviewVars>>

Finalize ==
    /\ pc = "finalize"
    /\ NodeReturns("finalize", finalize_course(state))
    /\ trace' = trace \o <<StageEvent("start", "finalize"), StageEvent("return", "finalize")>>
    /\ UNCHANGED <<calls, modIdx, lesIdx, content, result, response, parserVars, concurrencyVars, reviewVars>>

\* generate_course after the graph has finished
GenerateCourse ==
    /\ pc = "end"
    /\ result' = generate_course(state)
    /\ pc' = "done"
    /\ UNCHANGED <<state, chain, trace, calls, modIdx, lesIdx, content, response,
                   parserVars, concurrencyVars, reviewVars>>

\* create_course once generate_course has returned or raised
CreateCourse ==
    /\ pc = "done"
    /\ response = NoResponse
    /\ response' = create_course(result)
    /\ UNCHANGED <<pc, state, chain, trace, calls, modIdx, lesIdx, content, result,
                   parserVars, concurrencyVars, reviewVars>>

Next ==
    \/ Research
    \/ Structure
    \/ ContentStart
    \/ ContentLesson
    \/ Finalize
    \/ GenerateCourse
    \/ CreateCourse

Spec == Init /\ [][Next]_vars

\* The request's coroutine is the only one on the event loop, so a step that
\* is ready is taken; a step that awaits a generation call is ready once the
\* call has returned or raised, which every call eventually does.
\* pc enables one action at a time, so fairness of Next is fairness of each.
SpecTerminating == Init /\ [][Next]_vars /\ WF_vars(Next)

----------------------------------------------------------------------------
(* generate_course's decision as a function of the graph's last state *)

ExampleCourse(modules, references) ==
    [course_title |-> "Introduction to Microfinance",
     description  |-> "Fundamentals and applications",
     modules      |-> modules,
     references   |-> references]

\* values of the final_course field: absent, the empty dict, courses
LastFinalCourses ==
    { None,
      Some(<<>>),
      Some(ExampleCourse(<<>>, <<>>)),
      Some(ExampleCourse(
          <<[title |-> "MODULE 1: Basics",
             lessons |-> <<[title |-> "What is Microfinance?",
                            content |-> <<"unformatted text">>,
                            resources |-> <<"Resource 1">>]>>]>>,
          <<"World Bank report">>)) }

\* values of the error field: absent, the empty text, messages of the stages
LastErrors ==
    { None,
      Some(<<>>),
      Some(<<"Missing content data for finalizing the course">>),
      Some(<<"Structure creation error: ", "timeout">>) }

LastStates ==
    { AgentState(r.brief, r.target_audience, r.course_duration, rd, cs, None, fc, err) :
        r \in Requests,
        rd \in {None} \cup {Some(x) : x \in ResearchResults},
        cs \in {None, Some(CourseStructure(<<>>))},
        fc \in LastFinalCourses,
        err \in LastErrors }

EndInit ==
    /\ state \in LastStates
    /\ chain = <<state>>
    /\ pc = "end"
    /\ trace = <<>>
    /\ calls = <<>>
    /\ modIdx = 0
    /\ lesIdx = 0
    /\ content = <<>>
    /\ result = Pending
    /\ response = NoResponse
    /\ NoParser
    /\ NoReview
    /\ NoConcurrency

SpecEnd == EndInit /\ [][GenerateCourse]_vars

----------------------------------------------------------------------------
(* finalize_course as a function of the state it is given *)

\* values of content_data: absent, the empty dict, dicts whose keys are module
\* titles or differ from one in letter case only, each key with no entry or one
ContentKeys == ModuleTitles \cup {"module 1: basics"}

LessonEntries ==
    { <<>>,
      <<[title |-> "What is Microfinance?", content |-> <<"unformatted text">>,
         resources |-> <<"Resource 1">>]>> }

ContentDicts ==
    {<<>>}
    \cup {<<[key |-> k, value |-> v]>> : k \in ContentKeys, v \in LessonEntries}
    \cup {<<[key |-> p[1], value |-> v], [key |-> p[2], value |-> w]>> :
             p \in {q \in ContentKeys \X ContentKeys : q[1] # q[2]},
             v \in LessonEntries, w \in LessonEntries}

\* values of course_structure: absent, the empty dict, skeletons of up to two
\* modules of one lesson each
FinalizeStructures ==
    {None, Some(<<>>)}
    \cup {Some(CourseStructure(ms)) :
             ms \in UNION {[1..n -> {ModuleSkeleton(t, 1) : t \in ModuleTitles}] : n \in 0..2}}

\* values of research_data: absent, the empty dict, what research_topic
\* returns when its call raised, results of the research parser
FinalizeResearch ==
    {None, Some(<<>>), Some(research_topic(Raised(<<"timeout">>)))}
    \cup {Some(x) : x \in ResearchResults}

FinalizeStates ==
    { AgentState("Intro to Microfinance", Some("beginners"), None, rd, cs, cd, None, None) :
        rd \in FinalizeResearch,
        cs \in FinalizeStructures,
        cd \in {None} \cup {Some(d) : d \in ContentDicts} }

FinalizeInit ==
    /\ state \in FinalizeStates
    /\ chain = <<state>>
    /\ pc = "finalize"
    /\ trace = <<>>
    /\ calls = <<>>
    /\ modIdx = 0
    /\ lesIdx = 0
    /\ content = <<>>
    /\ result = Pending
    /\ response = NoResponse
    /\ NoParser
    /\ NoReview
    /\ NoConcurrency

SpecFinalize == FinalizeInit /\ [][Finalize \/ GenerateCourse \/ CreateCourse]_vars

----------------------------------------------------------------------------
(* Concurrent requests: coroutines of generate_course on one event loop.   *)
(* A coroutine runs alone from one suspension point to the next; it is     *)
(* suspended only while a generation call is awaited in BaseAgent.run.     *)

\* lessons of a course structure in the concurrent runs
ConcLessons == 1

ConcRequests ==
    << [brief |-> "Intro to Microfinance", target_audience |-> Some("beginners"),
        course_duration |-> Some("6 weeks")],
       [brief |-> "Intro to Accounting", target_audience |-> None,
        course_duration |-> None] >>

\* no module, or one module with any number of lessons
ConcStructureResults ==
    {CourseStructure(<<>>)} \cup
    {CourseStructure(<<ModuleSkeleton("MODULE 1: Basics", k)>>) : k \in 0..ConcLessons}

\* what the generation call of an agent, followed by its parser, can produce
ConcOutcomes(agent) ==
    CASE agent = "research" -> ResearchOutcomes
      [] agent = "structure" ->
            {Returned(c) : c \in ConcStructureResults} \cup {Raised(<<"timeout">>)}
      [] agent = "content" -> ContentOutcomes

\* `x or default` on an Optional, and dict.get on a dict modelled as a record
Or(o, default) == IF IsSet(o) THEN Val(o) ELSE default
Get(d, k, default) == IF k \in DOMAIN d THEN d[k] ELSE default

\* the inputs dict each agent method builds for its generation call
research_inputs(self, s) ==
    [system_prompt |-> self.system_prompt,
     topic         |-> s.brief,
     audience      |-> Or(s.target_audience, ""),
     duration      |-> Or(s.course_duration, "")]

structure_inputs(self, s) ==
    [system_prompt    |-> self.system_prompt,
     topic            |-> s.brief,
     audience         |-> Or(s.target_audience, ""),
     duration         |-> Or(s.course_duration, ""),
     research_summary |-> Get(Val(s.research_data), "summary", ""),
     key_concepts     |-> Get(Val(s.research_data), "key_concepts", <<>>)]

lesson_inputs(self, s, module_title, lesson_title) ==
    [system_prompt      |-> self.system_prompt,
     course_title       |-> Get(Val(s.course_structure), "course_title", ""),
     course_description |-> Get(Val(s.course_structure), "course_description", ""),
     module_title       |-> module_title,
     lesson_title       |-> lesson_title,
     audience           |-> Or(s.target_audience, ""),
     duration           |-> Or(s.course_duration, ""),
     research_info      |-> [summary      |-> Get(Val(s.research_data), "summary", ""),
                             key_concepts |-> Get(Val(s.research_data), "key_concepts", <<>>),
                             insights     |-> Get(Val(s.research_data), "insights", "")]]

\* a variant of BaseAgent.run that keeps the inputs of the call on the agent
base_agent_run_keeping_inputs(self, inputs, context) ==
    [self   |-> ("inputs" :> inputs) @@ self,
     inputs |-> ("context" :> context) @@ inputs]

\* BaseAgent.run up to its await: context is added to the caller's inputs
\* dict, which goes to the chain; no attribute of the agent is assigned
base_agent_run(self, inputs, context) ==
    [self   |-> self,
     inputs |-> ("context" :> context) @@ inputs]

\* the coroutine of generate_course(r) before it has run
Task(r) ==
    LET initial_state == AgentState(r.brief, r.target_audience, r.course_duration,
                                    None, None, None, None, None)
    IN [request    |-> r,
        pc         |-> "start",
        state      |-> initial_state,
        chain      |-> <<initial_state>>,
        modIdx     |-> 0,
        lesIdx     |-> 0,
        content    |-> <<>>,
        awaiting   |-> None,
        responses  |-> <<>>,
        result     |-> Pending,
        overlapped |-> FALSE]

\* a node of t's graph returns s
node_returned(t, s) == [t EXCEPT !.state = s, !.chain = Append(@, s)]

\* t's coroutine from the entry of node to its next generation call (pc names
\* the stage suspended there) or to the end of generate_course
RECURSIVE run_graph(_, _)
run_graph(t, node) ==
    CASE node = "research" -> [t EXCEPT !.pc = "research"]
      [] node = "structure" ->
            IF structure_has_prerequisite(t.state)
            THEN [t EXCEPT !.pc = "structure"]
            ELSE LET s == create_course_structure(t.state, Raised(<<>>))
                 IN run_graph(node_returned(t, s), build_course_generation_graph(node, s))
      [] node = "content" ->
            IF ~content_has_prerequisite(t.state)
            THEN LET s == content_missing_prerequisite(t.state)
                 IN run_graph(node_returned(t, s), build_course_generation_graph(node, s))
            ELSE LET modules == Val(t.state.course_structure).modules
                     e == enter_modules(<<>>, modules, 1)
                 IN IF e.modIdx > Len(modules)
                    THEN LET s == content_return(t.state, e.content)
                         IN run_graph(node_returned(t, s),
                                      build_course_generation_graph(node, s))
                    ELSE [t EXCEPT !.pc = "lessons", !.content = e.content,
                                   !.modIdx = e.modIdx, !.lesIdx = 1]
      [] node = "finalize" ->
            LET s == finalize_course(t.state)
            IN run_graph(node_returned(t, s), build_course_generation_graph(node, s))
      [] node = "end" -> [t EXCEPT !.pc = "done", !.result = generate_course(t.state)]

\* t's coroutine from the completion gen of the call it awaits to its next
\* generation call or to the end of generate_course
resume(t, gen) ==
    LET u == [t EXCEPT !.responses = Append(@, gen), !.awaiting = None]
    IN CASE t.pc = "research" ->
              LET s == research_course_topic(t.state, gen)
              IN run_graph(node_returned(u, s), build_course_generation_graph("research", s))
         [] t.pc = "structure" ->
              LET s == create_course_structure(t.state, gen)
              IN run_graph(node_returned(u, s), build_course_generation_graph("structure", s))
         [] t.pc = "lessons" ->
              LET modules == Val(t.state.course_structure).modules
                  module == modules[t.modIdx]
                  lesson_title == module.lessons[t.lesIdx].title
                  cd == DictAppend(t.content, module.title, lesson_entry(lesson_title, gen))
              IN IF t.lesIdx < Len(module.lessons)
                 THEN [u EXCEPT !.content = cd, !.lesIdx = @ + 1]
                 ELSE LET e == enter_modules(cd, modules, t.modIdx + 1)
                      IN IF e.modIdx > Len(modules)
                         THEN LET s == content_return(t.state, e.content)
                                  v == [u EXCEPT !.content = <<>>, !.modIdx = 0, !.lesIdx = 0]
                              IN run_graph(node_returned(v, s),
                                           build_course_generation_graph("content", s))
                         ELSE [u EXCEPT !.content = e.content, !.modIdx = e.modIdx,
                                        !.lesIdx = 1]

\* the singleton a suspended stage invokes
AgentAt(stage) == IF stage = "lessons" THEN "content" ELSE stage

\* the inputs of the call t is about to await
call_inputs(self, t) ==
    CASE t.pc = "research" -> research_inputs(self, t.state)
      [] t.pc = "structure" -> structure_inputs(self, t.state)
      [] t.pc = "lessons" ->
            LET module == Val(t.state.course_structure).modules[t.modIdx]
            IN lesson_inputs(self, t.state, module.title, module.lessons[t.lesIdx].title)

\* t has run to a generation call or to its end: the call goes through the
\* shared agent and t is suspended on it
suspend(t, ag) ==
    IF t.pc = "done"
    THEN [task |-> t, agents |-> ag]
    ELSE LET a == AgentAt(t.pc)
             run == base_agent_run(ag[a], call_inputs(ag[a], t), "")
         IN [task   |-> [t EXCEPT !.awaiting = Some([agent |-> a, inputs |-> run.inputs])],
             agents |-> [ag EXCEPT ![a] = run.self]]

InFlight(t) == t.pc \in {"research", "structure", "lessons"}

NoPipeline ==
    /\ pc = "idle"
    /\ state = None
    /\ chain = <<>>
    /\ trace = <<>>
    /\ calls = <<>>
    /\ modIdx = 0
    /\ lesIdx = 0
    /\ content = <<>>
    /\ result = Pending
    /\ response = NoResponse

ConcInit ==
    /\ tasks = [r \in DOMAIN ConcRequests |-> Task(ConcRequests[r])]
    /\ agents = Singletons
    /\ NoPipeline
    /\ NoParser
    /\ NoReview

\* the event loop runs request r's coroutine from its start to its first call
ConcStart(r) ==
    /\ tasks[r].pc = "start"
    /\ LET n == suspend(run_graph(tasks[r], "research"), agents)
       IN /\ tasks' = [tasks EXCEPT ![r] = n.task]
          /\ agents' = n.agents
    /\ UNCHANGED <<pipelineVars, parserVars, reviewVars>>

\* the call request r awaits completes with gen; the event loop runs r's
\* coroutine to its next call or to its end
ConcResume(r) ==
    /\ InFlight(tasks[r])
    /\ \E gen \in ConcOutcomes(AgentAt(tasks[r].pc)) :
          LET n == suspend(resume(tasks[r], gen), agents)
              met == \E q \in DOMAIN tasks : q # r /\ InFlight(tasks[q])
          IN /\ tasks' = [tasks EXCEPT ![r] = [n.task EXCEPT !.overlapped = @ \/ met]]
             /\ agents' = n.agents
    /\ UNCHANGED <<pipelineVars, parserVars, reviewVars>>

ConcNext == \E r \in DOMAIN ConcRequests : ConcStart(r) \/ ConcResume(r)

SpecConc == ConcInit /\ [][ConcNext]_vars

\* generate_course(r) run with no other request, its calls completing with
\* the given responses in order
RECURSIVE replay(_, _)
replay(t, responses) ==
    IF responses = <<>> THEN t
    ELSE replay(suspend(resume(t, Head(responses)), Singletons).task, Tail(responses))
RunAlone(r, responses) ==
    replay(suspend(run_graph(Task(r), "research"), Singletons).task, responses)

----------------------------------------------------------------------------
(* Text as the parsers see it: a sequence of characters. A keyword a parser *)
(* searches for is written as one element; every other element is a single *)
(* character. "" is <<>>.                                                   *)

\* blank-line-separated blocks of a generated text
MaxBlocks == 4

\* characters removed by str.strip()
Whitespace == {" ", "\n"}

\* index of the first occurrence of sep in t, 0 when there is none
Find(t, sep) ==
    LET hits == {i \in 1..(Len(t) - Len(sep) + 1) : SubSeq(t, i, i + Len(sep) - 1) = sep}
    IN IF hits = {} THEN 0 ELSE CHOOSE i \in hits : \A j \in hits : i <= j

\* t.split(sep)
RECURSIVE split(_, _)
split(t, sep) ==
    LET i == Find(t, sep)
    IN IF i = 0 THEN <<t>>
       ELSE <<SubSeq(t, 1, i - 1)>> \o split(SubSeq(t, i + Len(sep), Len(t)), sep)

\* t.split(sep, 1)
split_once(t, sep) ==
    LET i == Find(t, sep)
    IN IF i = 0 THEN <<t>>
       ELSE <<SubSeq(t, 1, i - 1), SubSeq(t, i + Len(sep), Len(t))>>

\* sep.join(parts)
RECURSIVE join(_, _)
join(parts, sep) ==
    IF parts = <<>> THEN <<>>
    ELSE IF Len(parts) = 1 THEN parts[1]
    ELSE parts[1] \o sep \o join(Tail(parts), sep)

\* t.strip()
strip(t) ==
    LET keep == {i \in 1..Len(t) : t[i] \notin Whitespace}
    IN IF keep = {} THEN <<>>
       ELSE SubSeq(t, CHOOSE i \in keep : \A j \in keep : i <= j,
                      CHOOSE i \in keep : \A j \in keep : i >= j)

\* t.replace(keyword, "")
remove(t, keyword) == SelectSeq(t, LAMBDA c : c # keyword)

\* t.replace(sep, "", 1)
remove_first(t, sep) ==
    LET i == Find(t, sep)
    IN IF i = 0 THEN t ELSE SubSeq(t, 1, i - 1) \o SubSeq(t, i + Len(sep), Len(t))

\* t.startswith(prefix)
startswith(t, prefix) == Len(t) >= Len(prefix) /\ SubSeq(t, 1, Len(prefix)) = prefix

\* a variant that keeps the lines as they are, dropping the empty ones
stripped_lines_untrimmed(t) ==
    SelectSeq(split(t, <<"\n">>), LAMBDA l : l # <<>>)

\* [line.strip() for line in t.split("\n") if line.strip()]
stripped_lines(t) ==
    LET lines == split(t, <<"\n">>)
    IN SelectSeq([i \in 1..Len(lines) |-> strip(lines[i])], LAMBDA l : l # <<>>)

\* the texts made of at most MaxBlocks of the given blocks, joined by blank lines
TextsOf(blocks) ==
    {join(bs, <<"\n", "\n">>) : bs \in UNION {[1..n -> blocks] : n \in 0..MaxBlocks}}

----------------------------------------------------------------------------
(* ResearchAgent._parse_research_result *)

ResearchHeaders == <<"RESEARCH SUMMARY:", "KEY CONCEPTS:", "RESOURCES:", "INSIGHTS:">>

\* the field each header fills
ResearchField(header) ==
    CASE header = "RESEARCH SUMMARY:" -> "summary"
      [] header = "KEY CONCEPTS:" -> "key_concepts"
      [] header = "RESOURCES:" -> "resources"
      [] header = "INSIGHTS:" -> "insights"

\* a variant that appends a block without header to summary and insights
\* only, without the newline
research_section_joining_plain(p, section) ==
    IF Contains(section, <<"RESEARCH SUMMARY:">>)
    THEN [data |-> [p.data EXCEPT !.summary = strip(remove(section, "RESEARCH SUMMARY:"))],
          current_section |-> "summary"]
    ELSE IF Contains(section, <<"KEY CONCEPTS:">>)
    THEN [data |-> [p.data EXCEPT !.key_concepts =
                        stripped_lines(strip(remove(section, "KEY CONCEPTS:")))],
          current_section |-> "key_concepts"]
    ELSE IF Contains(section, <<"RESOURCES:">>)
    THEN [data |-> [p.data EXCEPT !.resources =
                        stripped_lines(strip(remove(section, "RESOURCES:")))],
          current_section |-> "resources"]
    ELSE IF Contains(section, <<"INSIGHTS:">>)
    THEN [data |-> [p.data EXCEPT !.insights = strip(remove(section, "INSIGHTS:"))],
          current_section |-> "insights"]
    ELSE IF p.current_section \in {"summary", "insights"}
    THEN [p EXCEPT !.data[p.current_section] = @ \o section]
    ELSE p

\* one pass of the loop over the sections; p holds research_data and
\* current_section ("" is None)
research_section(p, section) ==
    IF Contains(section, <<"RESEARCH SUMMARY:">>)
    THEN [data |-> [p.data EXCEPT !.summary = strip(remove(section, "RESEARCH SUMMARY:"))],
          current_section |-> "summary"]
    ELSE IF Contains(section, <<"KEY CONCEPTS:">>)
    THEN [data |-> [p.data EXCEPT !.key_concepts =
                        stripped_lines(strip(remove(section, "KEY CONCEPTS:")))],
          current_section |-> "key_concepts"]
    ELSE IF Contains(section, <<"RESOURCES:">>)
    THEN [data |-> [p.data EXCEPT !.resources =
                        stripped_lines(strip(remove(section, "RESOURCES:")))],
          current_section |-> "resources"]
    ELSE IF Contains(section, <<"INSIGHTS:">>)
    THEN [data |-> [p.data EXCEPT !.insights = strip(remove(section, "INSIGHTS:"))],
          current_section |-> "insights"]
    ELSE IF p.current_section \in {"summary", "insights"}
    THEN [p EXCEPT !.data[p.current_section] = @ \o <<"\n">> \o section]
    ELSE IF p.current_section \in {"key_concepts", "resources"}
    THEN [p EXCEPT !.data[p.current_section] = @ \o stripped_lines(section)]
    ELSE p

RECURSIVE research_sections(_, _)
research_sections(p, sections) ==
    IF sections = <<>> THEN p
    ELSE research_sections(research_section(p, Head(sections)), Tail(sections))

\* a variant whose loop starts with the summary section open
parse_research_result_summary_open(raw) ==
    research_sections(
        [data |-> [summary |-> <<>>, key_concepts |-> <<>>, resources |-> <<>>,
                   insights |-> <<>>],
         current_section |-> "summary"],
        split(raw, <<"\n", "\n">>)).data

\* _parse_research_result(result), raw being its argument: defaults, then the
\* loop with no section open
parse_research_result(raw) ==
    research_sections(
        [data |-> [summary |-> <<>>, key_concepts |-> <<>>, resources |-> <<>>,
                   insights |-> <<>>],
         current_section |-> ""],
        split(raw, <<"\n", "\n">>)).data

\* blocks of a research text: each section as the prompt asks for it, text
\* without a header, a header with nothing under it, text before a header,
\* two headers in one block, an empty block
ResearchBlocks ==
    { <<"RESEARCH SUMMARY:", "\n", "a">>,
      <<"KEY CONCEPTS:", "\n", "a", "\n", " ", "b", " ">>,
      <<"RESOURCES:", " ", "a">>,
      <<"INSIGHTS:", "\n", "a">>,
      <<"b", "\n", " ", "\n", "a", " ">>,
      <<"RESEARCH SUMMARY:">>,
      <<"b", "\n", "KEY CONCEPTS:", "\n", "a">>,
      <<"INSIGHTS:", "a", "\n", "RESOURCES:", "\n", "b">>,
      <<>> }

ResearchTexts == TextsOf(ResearchBlocks)

ParserInit(texts) ==
    /\ text \in texts
    /\ parsed = None
    /\ original_module = None
    /\ NoReview
    /\ NoPipeline
    /\ NoConcurrency

ParseResearch ==
    /\ parsed = None
    /\ parsed' = Some(parse_research_result(text))
    /\ UNCHANGED <<text, original_module, pipelineVars, concurrencyVars, reviewVars>>

SpecResearchParser == ParserInit(ResearchTexts) /\ [][ParseResearch]_vars

----------------------------------------------------------------------------
(* StructureAgent._parse_structure_result *)

StructureHeaders == <<"COURSE TITLE:", "COURSE DESCRIPTION:", "RATIONALE:">>

\* the lessons of a module block: the loop over lines[1:]
RECURSIVE module_lessons(_)
\* a variant whose lesson title is the text after the last colon of the line
module_lessons_after_last_colon(lines) ==
    IF lines = <<>> THEN <<>>
    ELSE LET lesson_line == strip(Head(lines))
             lesson_parts == split(lesson_line, <<":">>)
             lesson_title == IF Len(lesson_parts) > 1
                             THEN strip(lesson_parts[Len(lesson_parts)])
                             ELSE strip(remove_first(lesson_line, <<"-", " ">>))
         IN IF startswith(lesson_line, <<"-", " ">>)
            THEN <<[title |-> lesson_title, content |-> <<>>]>> \o module_lessons(Tail(lines))
            ELSE module_lessons(Tail(lines))

module_lessons(lines) ==
    IF lines = <<>> THEN <<>>
    ELSE LET lesson_line == strip(Head(lines))
             lesson_parts == split_once(lesson_line, <<":">>)
             lesson_title == IF Len(lesson_parts) > 1
                             THEN strip(lesson_parts[2])
                             ELSE strip(remove_first(lesson_line, <<"-", " ">>))
         IN IF startswith(lesson_line, <<"-", " ", "Lesson", " ">>)
               \/ startswith(lesson_line, <<"-", " ">>)
            THEN <<[title |-> lesson_title, content |-> <<>>]>> \o module_lessons(Tail(lines))
            ELSE module_lessons(Tail(lines))

\* a variant in which a block joins the modules whenever it starts with
\* "MODULE ", whatever else it contains
structure_section_module_first(data, block) ==
    LET section == strip(block)
        lines == split(section, <<"\n">>)
    IN IF startswith(section, <<"MODULE", " ">>)
       THEN [data EXCEPT !.modules =
                 Append(@, [title |-> strip(lines[1]), lessons |-> module_lessons(Tail(lines))])]
       ELSE IF Contains(section, <<"COURSE TITLE:">>)
       THEN [data EXCEPT !.course_title = strip(remove(section, "COURSE TITLE:"))]
       ELSE IF Contains(section, <<"COURSE DESCRIPTION:">>)
       THEN [data EXCEPT !.course_description = strip(remove(section, "COURSE DESCRIPTION:"))]
       ELSE IF Contains(section, <<"RATIONALE:">>)
       THEN [data EXCEPT !.rationale = strip(remove(section, "RATIONALE:"))]
       ELSE data

\* one pass of the loop over the sections
structure_section(data, block) ==
    LET section == strip(block)
        lines == split(section, <<"\n">>)
    IN IF Contains(section, <<"COURSE TITLE:">>)
       THEN [data EXCEPT !.course_title = strip(remove(section, "COURSE TITLE:"))]
       ELSE IF Contains(section, <<"COURSE DESCRIPTION:">>)
       THEN [data EXCEPT !.course_description = strip(remove(section, "COURSE DESCRIPTION:"))]
       ELSE IF Contains(section, <<"RATIONALE:">>)
       THEN [data EXCEPT !.rationale = strip(remove(section, "RATIONALE:"))]
       ELSE IF startswith(section, <<"MODULE", " ">>)
       THEN [data EXCEPT !.modules =
                 Append(@, [title |-> strip(lines[1]), lessons |-> module_lessons(Tail(lines))])]
       ELSE data

RECURSIVE structure_sections(_, _)
structure_sections(data, sections) ==
    IF sections = <<>> THEN data
    ELSE structure_sections(structure_section(data, Head(sections)), Tail(sections))

\* _parse_structure_result(result), raw being its argument
parse_structure_result(raw) ==
    structure_sections(
        [course_title |-> <<>>, course_description |-> <<>>, modules |-> <<>>,
         rationale |-> <<>>],
        split(raw, <<"\n", "\n">>))

\* blocks of a structure text: the three headed sections, modules with no,
\* one and several lessons, with bullets that are not "- Lesson" lines and
\* lines that are no bullets, a module followed by the rationale without a
\* blank line, text without a header, an indented module
StructureBlocks ==
    { <<"COURSE TITLE:", " ", "a">>,
      <<"COURSE DESCRIPTION:", " ", "a", "\n", "b">>,
      <<"RATIONALE:", " ", "b">>,
      <<"MODULE", " ", "a">>,
      <<"MODULE", " ", "a", ":", "b", "\n", "-", " ", "Lesson", " ", "a", ":", " ", "b">>,
      <<"MODULE", " ", "b", "\n", " ", "-", " ", "a", "\n", "b", "\n",
        "-", " ", "Lesson", " ", "b", ":", "a", ":", "b">>,
      <<"MODULE", " ", "a", "\n", "-", " ", "Lesson", " ", "a", ":", "b", "\n",
        "RATIONALE:", " ", "b">>,
      <<"b">>,
      <<" ", "MODULE", " ", "b", "\n", "-", "a", "\n", "-", " ", "Lesson", " ", "a">> }

StructureTexts == TextsOf(StructureBlocks)

ParseStructure ==
    /\ parsed = None
    /\ parsed' = Some(parse_structure_result(text))
    /\ UNCHANGED <<text, original_module, pipelineVars, concurrencyVars, reviewVars>>

SpecStructureParser == ParserInit(StructureTexts) /\ [][ParseStructure]_vars

----------------------------------------------------------------------------
(* Both section parsers on blocks that hold more than one header *)

\* blocks with two research headers in either order, with two structure
\* headers, with "MODULE " and a header, and blocks with a single match
PriorityBlocks ==
    { <<"INSIGHTS:", "a", "\n", "RESOURCES:", "\n", "b">>,
      <<"KEY CONCEPTS:", "a", "\n", "RESEARCH SUMMARY:", "b">>,
      <<"RESEARCH SUMMARY:", " ", "a">>,
      <<"RATIONALE:", " ", "a", "\n", "COURSE TITLE:", " ", "b">>,
      <<"MODULE", " ", "a", "\n", "-", " ", "b", "\n", "COURSE DESCRIPTION:", "a">>,
      <<"MODULE", " ", "b", "\n", "-", " ", "a">>,
      <<"COURSE DESCRIPTION:", " ", "b", "RATIONALE:", "a">> }

PriorityTexts == TextsOf(PriorityBlocks)

SpecHeaderPriority ==
    ParserInit(PriorityTexts) /\ [][ParseResearch \/ ParseStructure]_vars

----------------------------------------------------------------------------
(* ContentAgent._parse_content_result *)

\* characters of a text drawn freely, resources of a formatted lesson
MaxTextLen == 4
MaxResources == 2

\* a variant that takes the split whenever RESOURCES: is present
parse_content_result_on_resources(raw) ==
    IF Contains(raw, <<"RESOURCES:">>)
    THEN LET parts == split(raw, <<"RESOURCES:">>)
         IN [content   |-> strip(remove(parts[1], "CONTENT:")),
             resources |-> stripped_lines(strip(parts[2]))]
    ELSE [content |-> raw, resources |-> <<>>]

\* _parse_content_result(result), raw being its argument; the split has at
\* least two parts whenever RESOURCES: is present
parse_content_result(raw) ==
    IF Contains(raw, <<"CONTENT:">>) /\ Contains(raw, <<"RESOURCES:">>)
    THEN LET parts == split(raw, <<"RESOURCES:">>)
         IN [content   |-> strip(remove(parts[1], "CONTENT:")),
             resources |-> stripped_lines(strip(parts[2]))]
    ELSE [content |-> raw, resources |-> <<>>]

\* the format the prompt of the content agent asks for
formatted_lesson(body, resources) ==
    <<"CONTENT:", "\n">> \o body \o <<"\n", "\n", "RESOURCES:", "\n">>
        \o join(resources, <<"\n">>)

\* lesson bodies without a marker
LessonBodies ==
    { <<"a">>, <<" ", "a", "\n", "b", " ">>, <<"a", "\n", "\n", "b">>, <<>> }

\* resources: non-empty, trimmed, on one line
ResourceLines ==
    { <<"a">>, <<"b", " ", "a">>, <<"a", " ", "RESOURCES:", "b">>, <<"CONTENT:", "a">> }

ResourceLists == UNION {[1..n -> ResourceLines] : n \in 0..MaxResources}

ContentTexts ==
    {formatted_lesson(body, resources) : body \in LessonBodies, resources \in ResourceLists}
    \cup UNION {[1..n -> {"CONTENT:", "RESOURCES:", "\n", " ", "a"}] : n \in 0..MaxTextLen}

ParseContent ==
    /\ parsed = None
    /\ parsed' = Some(parse_content_result(text))
    /\ UNCHANGED <<text, original_module, pipelineVars, concurrencyVars, reviewVars>>

SpecContentParser == ParserInit(ContentTexts) /\ [][ParseContent]_vars

----------------------------------------------------------------------------
(* QualityAgent._parse_review_result *)

\* a variant that writes the review notes into the dict it was given
parse_review_result_in_place(raw, module_dict) ==
    LET quality_review ==
            [module_review |->
                 IF Contains(raw, <<"MODULE REVIEW:">>)
                 THEN strip(split(split(raw, <<"MODULE REVIEW:">>)[2], <<"IMPROVEMENTS:">>)[1])
                 ELSE <<>>,
             improvements |->
                 IF Contains(raw, <<"IMPROVEMENTS:">>)
                 THEN strip(split(split(raw, <<"IMPROVEMENTS:">>)[2], <<"LESSON REVIEWS:">>)[1])
                 ELSE <<>>,
             revised_content_notes |-> strip(split(raw, <<"REVISED CONTENT:">>)[2])]
        module == IF Contains(raw, <<"REVISED CONTENT:">>)
                  THEN ("quality_review" :> quality_review) @@ module_dict
                  ELSE module_dict
    IN [module |-> module, original_module |-> module]

\* _parse_review_result(result, original_module), raw being its first
\* argument: the dict it returns and the dict it was given, after the call.
\* The returned dict is a copy made by dict(original_module); the split on
\* REVISED CONTENT: has two parts whenever the marker is present
parse_review_result(raw, module_dict) ==
    LET quality_review ==
            [module_review |->
                 IF Contains(raw, <<"MODULE REVIEW:">>)
                 THEN strip(split(split(raw, <<"MODULE REVIEW:">>)[2], <<"IMPROVEMENTS:">>)[1])
                 ELSE <<>>,
             improvements |->
                 IF Contains(raw, <<"IMPROVEMENTS:">>)
                 THEN strip(split(split(raw, <<"IMPROVEMENTS:">>)[2], <<"LESSON REVIEWS:">>)[1])
                 ELSE <<>>,
             revised_content_notes |-> strip(split(raw, <<"REVISED CONTENT:">>)[2])]
        module == IF Contains(raw, <<"REVISED CONTENT:">>)
                  THEN ("quality_review" :> quality_review) @@ module_dict
                  ELSE module_dict
    IN [module |-> module, original_module |-> module_dict]

\* blocks of a review text: the four sections of the prompt, text without
\* a marker
ReviewBlocks ==
    { <<"MODULE REVIEW:", "\n", "a">>,
      <<"IMPROVEMENTS:", " ", "b", " ", "\n", "a">>,
      <<"LESSON REVIEWS:", " ", "a">>,
      <<"REVISED CONTENT:", "\n", "b">>,
      <<"a">> }

ReviewTexts == TextsOf(ReviewBlocks)

\* the lessons of a module dict as review_course builds it
ReviewedLessons ==
    <<[title |-> "What is Microfinance?", content |-> <<"unformatted text">>,
       resources |-> <<"Resource 1">>],
      [title |-> "Key Concepts", content |-> <<"Error generating content: ", "timeout">>,
       resources |-> <<>>]>>

\* module dicts: without lessons, with two lessons, and one that already
\* carries review notes
ReviewModules ==
    { [title |-> "MODULE 1: Basics", lessons |-> <<>>],
      [title |-> "MODULE 2: History", lessons |-> ReviewedLessons],
      [title |-> "MODULE 2: History", lessons |-> ReviewedLessons,
       quality_review |-> [module_review |-> <<"b">>, improvements |-> <<>>,
                           revised_content_notes |-> <<"a">>]] }

ReviewParserInit ==
    /\ text \in ReviewTexts
    /\ parsed = None
    /\ original_module \in {Some(m) : m \in ReviewModules}
    /\ NoPipeline
    /\ NoConcurrency
    /\ NoReview

ParseReview ==
    /\ parsed = None
    /\ IsSet(original_module)
    /\ LET r == parse_review_result(text, Val(original_module))
       IN /\ parsed' = Some(r.module)
          /\ original_module' = Some(r.original_module)
    /\ UNCHANGED <<text, pipelineVars, concurrencyVars, reviewVars>>

SpecReviewParser == ReviewParserInit /\ [][ParseReview]_vars

----------------------------------------------------------------------------
(* QualityAgent.review_course *)

\* review_course, lines 196-200: a module of the course as a dict
module_dict_of(module) ==
    [title   |-> module.title,
     lessons |-> [j \in 1..Len(module.lessons) |->
                    [title     |-> module.lessons[j].title,
                     content   |-> module.lessons[j].content,
                     resources |-> module.lessons[j].resources]]]

\* review_module, raw being what self.run(inputs) returned: the module
\* dict it hands back
review_module(raw, module_dict) == parse_review_result(raw, module_dict).module

\* a variant that rewrites every lesson with the revised content of the
\* review
ReviewedModuleRevised(improved_module_dict) ==
    [title   |-> improved_module_dict.title,
     lessons |-> [j \in 1..Len(improved_module_dict.lessons) |->
                    [title     |-> improved_module_dict.lessons[j].title,
                     content   |-> IF "quality_review" \in DOMAIN improved_module_dict
                                   THEN improved_module_dict.quality_review.revised_content_notes
                                   ELSE improved_module_dict.lessons[j].content,
                     resources |-> improved_module_dict.lessons[j].resources]]]

\* review_course, lines 210-217: the Module built from the reviewed dict.
\* Module and Lesson have the fields title/lessons and
\* title/content/resources; every other key of the dict is left behind
ReviewedModule(improved_module_dict) ==
    [title   |-> improved_module_dict.title,
     lessons |-> [j \in 1..Len(improved_module_dict.lessons) |->
                    [title     |-> improved_module_dict.lessons[j].title,
                     content   |-> improved_module_dict.lessons[j].content,
                     resources |-> improved_module_dict.lessons[j].resources]]]

\* review_course, lines 220-226
improved_course(course, improved_modules) ==
    [course_title |-> course.course_title,
     description  |-> course.description,
     modules      |-> improved_modules,
     references   |-> course.references]

\* the modules of the courses under review
ReviewedCourseModules ==
    { <<>>,
      <<[title |-> "MODULE 2: History", lessons |-> ReviewedLessons]>>,
      <<[title |-> "MODULE 1: Basics", lessons |-> <<>>],
        [title |-> "MODULE 2: History", lessons |-> ReviewedLessons]>>,
      <<[title |-> "MODULE 2: History", lessons |-> ReviewedLessons],
        [title |-> "MODULE 2: History", lessons |-> SubSeq(ReviewedLessons, 2, 2)]>> }

\* courses handed to review_course
ReviewCourses ==
    { [course_title |-> "Introduction to Microfinance",
       description  |-> "A first course",
       modules      |-> modules,
       references   |-> references] :
        modules \in ReviewedCourseModules,
        references \in {<<>>, <<"Resource 1">>, <<"Resource 1", "Resource 2">>} }

\* what one review call can return: no text, one section, two sections
\* in either order
ReviewOutputs ==
    {<<>>} \cup ReviewBlocks
           \cup {first \o <<"\n", "\n">> \o second : first \in ReviewBlocks, second \in ReviewBlocks}

\* the coroutine of review_course on entry
ReviewCall(course) ==
    [pc |-> "called", course |-> course, module_index |-> 0,
     improved_modules |-> <<>>, improved_module_dict |-> None, returned |-> None]

ReviewInit ==
    /\ review \in {Some(ReviewCall(course)) : course \in ReviewCourses}
    /\ NoPipeline
    /\ NoParser
    /\ NoConcurrency

\* review_course from its entry to the first await, or to its return for a
\* course without modules
ReviewCourseStart ==
    /\ IsSet(review)
    /\ Val(review).pc = "called"
    /\ LET r == Val(review)
       IN review' = Some(IF Len(r.course.modules) = 0
                         THEN [r EXCEPT !.pc = "returned",
                                        !.returned = Some(improved_course(r.course, <<>>))]
                         ELSE [r EXCEPT !.pc = "awaiting", !.module_index = 1])
    /\ UNCHANGED <<pipelineVars, parserVars, concurrencyVars>>

\* the review of one module returns: review_course from one await to the
\* next, or to its return after the last module
ReviewModuleReturns ==
    /\ IsSet(review)
    /\ Val(review).pc = "awaiting"
    /\ \E raw \in ReviewOutputs :
         LET r == Val(review)
             improved_module_dict ==
                 review_module(raw, module_dict_of(r.course.modules[r.module_index]))
             improved_modules ==
                 Append(r.improved_modules, ReviewedModule(improved_module_dict))
         IN review' = Some(IF r.module_index = Len(r.course.modules)
                           THEN [r EXCEPT !.pc = "returned",
                                          !.improved_modules = improved_modules,
                                          !.improved_module_dict = Some(improved_module_dict),
                                          !.returned = Some(improved_course(r.course, improved_modules))]
                           ELSE [r EXCEPT !.module_index = @ + 1,
                                          !.improved_modules = improved_modules,
                                          !.improved_module_dict = Some(improved_module_dict)])
    /\ UNCHANGED <<pipelineVars, parserVars, concurrencyVars>>

\* the review of one module raises: nothing in review_module or
\* review_course catches it
ReviewModuleRaises ==
    /\ IsSet(review)
    /\ Val(review).pc = "awaiting"
    /\ review' = Some([Val(review) EXCEPT !.pc = "raised"])
    /\ UNCHANGED <<pipelineVars, parserVars, concurrencyVars>>

SpecReview == ReviewInit /\ [][ReviewCourseStart \/ ReviewModuleReturns \/ ReviewModuleRaises]_vars

----------------------------------------------------------------------------
(* Vocabulary of the properties *)

ErrorSet(s) == TruthySeq(s.error)

\* the result fields of a snapshot that hold a value
Populated(s) ==
    {f \in {"research_data", "course_structure", "content_data", "final_course"} : IsSet(s[f])}

CallsOf(agent) == SelectSeq(calls, LAMBDA c : c.agent = agent)

\* starts and returns of stages, without the agent invocations
StageEvents == SelectSeq(trace, LAMBDA e : e.ev # "call")

FullRun ==
    <<StageEvent("start", "research"),  StageEvent("return", "research"),
      StageEvent("start", "structure"), StageEvent("return", "structure"),
      StageEvent("start", "content"),   StageEvent("return", "content"),
      StageEvent("start", "finalize"),  StageEvent("return", "finalize")>>

IsPrefix(a, b) == Len(a) <= Len(b) /\ SubSeq(b, 1, Len(a)) = a

\* chain[StageSnapshot(stage)] is the state that stage returned
StageSnapshot(stage) ==
    CASE stage = "research" -> 2 [] stage = "structure" -> 3
      [] stage = "content" -> 4 [] stage = "finalize" -> 5

SomeStageFailed == \E k \in 1..Len(chain) : ErrorSet(chain[k])

\* the skeleton the Structure stage returned (defined once it has succeeded)
Skeleton == Val(chain[3].course_structure).modules
StructureSucceeded == Len(chain) >= 3 /\ IsSet(chain[3].course_structure)

\* number of lessons of the skeleton before lesson j of module i, plus j:
\* the position of that lesson's call among the content calls
RECURSIVE LessonsBefore(_, _)
LessonsBefore(modules, i) ==
    IF i <= 1 THEN 0 ELSE LessonsBefore(modules, i - 1) + Len(modules[i - 1].lessons)
CallOfLesson(i, j) == CallsOf("content")[LessonsBefore(Skeleton, i) + j]

FailedLessonCalls ==
    {n \in 1..Len(CallsOf("content")) : ~CallsOf("content")[n].outcome.ok}

----------------------------------------------------------------------------
(* Properties *)

\* C1: whenever a stage returns a state whose error field is set, the
\* pipeline goes directly to End: that state is the last one of the chain and
\* no later stage is started.
C1_ErrorShortCircuits ==
    \A k \in 2..Len(chain) :
        ErrorSet(chain[k]) => (k = Len(chain) /\ pc \in {"end", "done"})

\* C2: if the generation call of the Research stage raises with message m,
\* the Structure stage's collaborator is never invoked and generate_course
\* raises a failure whose message contains m.
C2_ResearchFailureReachesCaller ==
    \A n \in 1..Len(calls) :
        (calls[n].agent = "research" /\ ~calls[n].outcome.ok) =>
            /\ CallsOf("structure") = <<>>
            /\ pc = "done" =>
                  (result.kind = "raised" /\ Contains(result.message, calls[n].outcome.msg))

\* C3: when exactly one lesson's generation call raises, the request succeeds
\* provided Finalize does, every other lesson of the skeleton has its entry,
\* built from what its own call returned, and the failing lesson has an entry
\* with its skeleton title, empty resources and a non-empty content.
C3_LessonFailureIsolated ==
    (pc = "done" /\ StructureSucceeded /\ Cardinality(FailedLessonCalls) = 1) =>
        /\ ~ErrorSet(state) => result.kind = "returned"
        /\ result.kind = "returned" =>
              LET course == Val(result.course)
              IN /\ Len(course.modules) = Len(Skeleton)
                 /\ \A i \in 1..Len(Skeleton) :
                      /\ Len(course.modules[i].lessons) = Len(Skeleton[i].lessons)
                      /\ \A j \in 1..Len(Skeleton[i].lessons) :
                            LET entry == course.modules[i].lessons[j]
                                gen == CallOfLesson(i, j).outcome
                            IN /\ entry.title = Skeleton[i].lessons[j].title
                               /\ gen.ok => /\ entry.content = gen.val.content
                                            /\ entry.resources = gen.val.resources
                               /\ ~gen.ok => /\ entry.resources = <<>>
                                             /\ entry.content # <<>>

\* C4: once any stage has returned a state with error set, generate_course
\* returns no course for the request: it ends by raising.
C4_NoCourseAfterError ==
    SomeStageFailed =>
        /\ result.kind # "returned"
        /\ pc = "done" => (result.kind = "raised" /\ result.course = None)

C4_Witness ==
    /\ pc = "done"
    /\ result.kind = "raised"
    /\ ErrorSet(chain[3])
    /\ TruthyDict(chain[3].research_data)
    /\ Len(chain) = 5

\* C5: generate_course decides on the last state in this order: error set,
\* it raises with a message carrying the error text; else final_course unset,
\* it raises with the generic 'No final course data available' message; else
\* it returns the course built from final_course. A course is returned exactly
\* when error is unset and final_course is set.
C5_FinalDecision ==
    pc = "done" =>
        /\ ErrorSet(state) =>
              /\ result.kind = "raised"
              /\ Contains(result.message, Val(state.error))
        /\ (~ErrorSet(state) /\ ~TruthyDict(state.final_course)) =>
              /\ result.kind = "raised"
              /\ Contains(result.message, <<"No final course data available">>)
        /\ (~ErrorSet(state) /\ TruthyDict(state.final_course)) =>
              /\ result.kind = "returned"
              /\ LET course == Val(result.course)
                     final == Val(state.final_course)
                 IN /\ course.course_title = final.course_title
                    /\ course.description = final.description
                    /\ course.references = final.references
                    /\ course.modules = final.modules
        /\ result.kind = "returned" <=> (~ErrorSet(state) /\ TruthyDict(state.final_course))

\* the decision is taken on a state with both error and final_course set
C5_Witness ==
    /\ pc = "done"
    /\ ErrorSet(state)
    /\ TruthyDict(state.final_course)
    /\ result.kind = "raised"

\* C6: when all four stages succeed (every generation call returns and no
\* stage sets error), the returned course has the skeleton's modules in order,
\* each with one lesson entry per skeleton lesson, titled and ordered as in
\* the skeleton, and references equals research_data.resources.
C6_CourseMirrorsSkeleton ==
    (/\ pc = "done"
     /\ \A n \in 1..Len(calls) : calls[n].outcome.ok
     /\ ~SomeStageFailed) =>
        /\ result.kind = "returned"
        /\ LET course == Val(result.course)
           IN /\ Len(course.modules) = Len(Skeleton)
              /\ \A i \in 1..Len(Skeleton) :
                    /\ course.modules[i].title = Skeleton[i].title
                    /\ Len(course.modules[i].lessons) = Len(Skeleton[i].lessons)
                    /\ \A j \in 1..Len(Skeleton[i].lessons) :
                          course.modules[i].lessons[j].title = Skeleton[i].lessons[j].title
              /\ course.references = Val(state.research_data).resources

\* C7: the stages of a request run in the order Research, Structure, Content,
\* Finalize, each at most once, each starting after the previous one has
\* returned, and every agent invocation lies between the start and the return
\* of its own stage.
C7_StagesSequential ==
    /\ IsPrefix(StageEvents, FullRun)
    /\ \A p \in 1..Len(trace) :
          trace[p].ev = "call" =>
              \E q \in 1..(p - 1) :
                  /\ trace[q] = StageEvent("start", trace[p].stage)
                  /\ \A r \in (q + 1)..(p - 1) : trace[r].ev = "call"

C7_Witness ==
    /\ pc = "done"
    /\ StageEvents = FullRun
    /\ Len(CallsOf("content")) >= 2
    /\ result.kind = "returned"

\* C8: whenever the collaborator of a stage raises with message m, the state
\* that stage returns has error set to a message containing m.
C8_FailureEncodedInError ==
    \A n \in 1..Len(calls) :
        LET k == StageSnapshot(calls[n].agent)
        IN (~calls[n].outcome.ok /\ Len(chain) >= k) =>
              /\ ErrorSet(chain[k])
              /\ Contains(Val(chain[k].error), calls[n].outcome.msg)

\* the four keys a completed research leaves in research_data
ResearchKeys == {"summary", "key_concepts", "resources", "insights"}

\* C9: a stage whose required predecessor field is absent returns an error
\* and invokes no collaborator, and no collaborator is invoked with a
\* predecessor field that the previous stage did not populate fully.
C9_PrerequisitesChecked ==
    /\ (Len(chain) >= 3 /\ ~TruthyDict(chain[2].research_data)) =>
          (ErrorSet(chain[3]) /\ CallsOf("structure") = <<>>)
    /\ (Len(chain) >= 4 /\ ~TruthyDict(chain[3].course_structure)) =>
          (ErrorSet(chain[4]) /\ CallsOf("content") = <<>>)
    /\ (Len(chain) >= 5 /\ ~(TruthyDict(chain[4].course_structure)
                             /\ TruthySeq(chain[4].content_data))) =>
          ErrorSet(chain[5])
    /\ \A n \in 1..Len(calls) :
          calls[n].agent \in {"structure", "content"} =>
              /\ TruthyDict(calls[n].research_data)
              /\ ResearchKeys \subseteq DOMAIN Val(calls[n].research_data)

\* C10: from the first snapshot of a chain that has error set, every later
\* snapshot has error set and populates no result field that snapshot lacks.
C10_ErrorIsTerminal ==
    \A k \in 1..Len(chain) :
        (ErrorSet(chain[k]) /\ \A h \in 1..(k - 1) : ~ErrorSet(chain[h])) =>
            \A l \in (k + 1)..Len(chain) :
                /\ ErrorSet(chain[l])
                /\ Populated(chain[l]) \subseteq Populated(chain[k])

C10_Witness ==
    /\ Len(chain) = 5
    /\ ErrorSet(chain[3])
    /\ ~ErrorSet(chain[2])
    /\ Populated(chain[3]) = {"research_data"}
    /\ Populated(chain[5]) = {"research_data"}

\* C11: two requests interleaved at every generation call are independent:
\* every state of a request's chain carries that request's own inputs, the
\* agent singletons are never modified, and at every point each request is
\* where it would be running alone with the same responses (same chain,
\* same pending call, same outcome).
C11_RequestsIndependent ==
    /\ agents = Singletons
    /\ \A r \in DOMAIN tasks :
          LET t == tasks[r]
          IN /\ \A k \in 1..Len(t.chain) :
                   /\ t.chain[k].brief = ConcRequests[r].brief
                   /\ t.chain[k].target_audience = ConcRequests[r].target_audience
                   /\ t.chain[k].course_duration = ConcRequests[r].course_duration
             /\ t.pc # "start" =>
                   LET alone == RunAlone(ConcRequests[r], t.responses)
                   IN /\ t.chain = alone.chain
                      /\ t.awaiting = alone.awaiting
                      /\ t.pc = alone.pc
                      /\ t.result = alone.result

\* both requests have ended, one with a course and one with a failure, each
\* having been resumed while the other was suspended at a call
C11_Witness ==
    /\ tasks[1].pc = "done" /\ tasks[2].pc = "done"
    /\ tasks[1].overlapped /\ tasks[2].overlapped
    /\ tasks[1].result.kind = "returned"
    /\ tasks[2].result.kind = "raised"
    /\ Len(tasks[1].responses) = 3

\* the text under header h: from its first occurrence to the next header
Under(h) ==
    LET i == Find(text, <<h>>)
        later == {j \in (i + 1)..Len(text) :
                     \E k \in 1..Len(ResearchHeaders) : text[j] = ResearchHeaders[k]}
        end == IF later = {} THEN Len(text) + 1
               ELSE CHOOSE j \in later : \A m \in later : j <= m
    IN SubSeq(text, i + 1, end - 1)

\* the lines of t with surrounding blanks removed, those left empty dropped
NonEmptyTrimmedLines(t) ==
    LET lines == split(t, <<"\n">>)
        kept == {i \in 1..Len(lines) : strip(lines[i]) # <<>>}
        nth(n) == CHOOSE i \in kept : Cardinality({j \in kept : j <= i}) = n
    IN [n \in 1..Cardinality(kept) |-> strip(lines[nth(n)])]

HasAllResearchHeaders ==
    \A k \in 1..Len(ResearchHeaders) : Contains(text, <<ResearchHeaders[k]>>)

\* C12: for a research text that lacks one or more of the four headers (no
\* header at all and the empty text included) the parser returns its dict,
\* with the default ("" or []) in every field whose header is missing.
C12_MissingHeadersKeepDefaults ==
    IsSet(parsed) =>
        /\ DOMAIN Val(parsed) = ResearchKeys
        /\ \A k \in 1..Len(ResearchHeaders) :
              ~Contains(text, <<ResearchHeaders[k]>>) =>
                  Val(parsed)[ResearchField(ResearchHeaders[k])] = <<>>

\* a text with a summary, a block without header after it and no other header
C12_Witness ==
    /\ IsSet(parsed)
    /\ Contains(text, <<"RESEARCH SUMMARY:">>)
    /\ ~Contains(text, <<"KEY CONCEPTS:">>)
    /\ ~Contains(text, <<"RESOURCES:">>)
    /\ ~Contains(text, <<"INSIGHTS:">>)
    /\ Len(split(text, <<"\n", "\n">>)) = 3
    /\ Find(Val(parsed).summary, <<"\n">>) > 0
    /\ Val(parsed).key_concepts = <<>>

\* C13: for any research text containing all four headers, in any order, the
\* parser yields a non-empty summary and non-empty insights, and key_concepts
\* and resources are exactly the non-empty trimmed lines under their header.
C13_AllHeadersParsed ==
    (IsSet(parsed) /\ HasAllResearchHeaders) =>
        /\ Val(parsed).summary # <<>>
        /\ Val(parsed).insights # <<>>
        /\ Val(parsed).key_concepts = NonEmptyTrimmedLines(Under("KEY CONCEPTS:"))
        /\ Val(parsed).resources = NonEmptyTrimmedLines(Under("RESOURCES:"))

\* every header occurs once, as the first text of a blank-line-separated block
HeadersOpenOwnBlocks ==
    LET sections == split(text, <<"\n", "\n">>)
    IN \A k \in 1..Len(ResearchHeaders) :
          LET h == ResearchHeaders[k]
          IN /\ Len(SelectSeq(text, LAMBDA c : c = h)) = 1
             /\ \E n \in 1..Len(sections) : startswith(strip(sections[n]), <<h>>)

\* C13 as amended: when each of the four headers occurs once and opens its
\* own block, in any order, key_concepts and resources are exactly the
\* non-empty trimmed lines under their header, and summary and insights are
\* non-empty whenever their header has non-blank text under it.
C13_SeparateHeadersParsed ==
    (IsSet(parsed) /\ HeadersOpenOwnBlocks) =>
        /\ strip(Under("RESEARCH SUMMARY:")) # <<>> => Val(parsed).summary # <<>>
        /\ strip(Under("INSIGHTS:")) # <<>> => Val(parsed).insights # <<>>
        /\ Val(parsed).key_concepts = NonEmptyTrimmedLines(Under("KEY CONCEPTS:"))
        /\ Val(parsed).resources = NonEmptyTrimmedLines(Under("RESOURCES:"))

\* the four sections in an order other than the prompt's, two concepts
C13_Witness ==
    /\ IsSet(parsed)
    /\ HeadersOpenOwnBlocks
    /\ Find(text, <<"INSIGHTS:">>) < Find(text, <<"RESEARCH SUMMARY:">>)
    /\ Len(Val(parsed).key_concepts) = 2
    /\ Len(Val(parsed).resources) = 1
    /\ Val(parsed).summary # <<>>

\* the blocks of the structure text that start with "MODULE "
ModuleBlocks ==
    LET sections == split(text, <<"\n", "\n">>)
    IN SelectSeq([n \in 1..Len(sections) |-> strip(sections[n])],
                 LAMBDA b : startswith(b, <<"MODULE", " ">>))

\* the lines of a block after its first that start with prefix once trimmed
LinesStarting(block, prefix) ==
    SelectSeq(Tail(split(block, <<"\n">>)), LAMBDA l : startswith(strip(l), prefix))

\* C14: for a structure text with N blocks starting with "MODULE ", each
\* containing M_i "- Lesson" lines, the parser yields exactly N modules in
\* encounter order, the i-th with exactly M_i lessons, for every N >= 0 and
\* M_i >= 0.
C14_ModulesAndLessonsCounted ==
    IsSet(parsed) =>
        LET modules == Val(parsed).modules
        IN /\ Len(modules) = Len(ModuleBlocks)
           /\ \A i \in 1..Len(ModuleBlocks) :
                 i <= Len(modules) =>
                    Len(modules[i].lessons) =
                        Len(LinesStarting(ModuleBlocks[i], <<"-", " ", "Lesson">>))

\* the blocks starting with "MODULE " that contain none of the three headers
PlainModuleBlocks ==
    SelectSeq(ModuleBlocks,
              LAMBDA b : \A k \in 1..Len(StructureHeaders) : ~Contains(b, <<StructureHeaders[k]>>))

\* C14 as amended: for a structure text with N blocks that start with
\* "MODULE " and contain no COURSE TITLE:, COURSE DESCRIPTION: or RATIONALE:
\* header, the i-th with M_i lines after its first that start with "- ", the
\* parser yields exactly N modules in encounter order, each titled by the
\* first line of its block, the i-th with exactly M_i lessons in line order.
C14_PlainModulesCounted ==
    IsSet(parsed) =>
        LET modules == Val(parsed).modules
            blocks == PlainModuleBlocks
        IN /\ Len(modules) = Len(blocks)
           /\ \A i \in 1..Len(blocks) :
                 LET bullets == LinesStarting(blocks[i], <<"-", " ">>)
                     lessons == modules[i].lessons
                 IN /\ modules[i].title = strip(Head(split(blocks[i], <<"\n">>)))
                    /\ Len(lessons) = Len(bullets)
                    /\ \A j \in 1..Len(bullets) : Contains(bullets[j], lessons[j].title)

\* three modules with 0, 1 and 2 lessons, and a block that is no module
C14_Witness ==
    /\ IsSet(parsed)
    /\ Len(split(text, <<"\n", "\n">>)) = 4
    /\ Len(Val(parsed).modules) = 3
    /\ Len(Val(parsed).modules[1].lessons) = 2
    /\ Len(Val(parsed).modules[2].lessons) = 0
    /\ Len(Val(parsed).modules[3].lessons) = 1

\* C15: for every body C containing neither marker and every sequence R of
\* non-empty trimmed single-line resources, parsing the formatted lesson
\* "CONTENT:\n" + C + "\n\nRESOURCES:\n" + R1 + "\n" + ... + Rn yields
\* content equal to C trimmed and resources equal to R.
C15_ContentRoundTrip ==
    IsSet(parsed) =>
        \A body \in LessonBodies, resources \in ResourceLists :
            text = formatted_lesson(body, resources) =>
                /\ Val(parsed).content = strip(body)
                /\ Val(parsed).resources = resources

\* C16: when the raw text lacks CONTENT: or lacks RESOURCES:, the parser
\* returns the whole raw text, unchanged, as content and no resources.
C16_FallbackKeepsRawText ==
    (IsSet(parsed) /\ ~(Contains(text, <<"CONTENT:">>) /\ Contains(text, <<"RESOURCES:">>))) =>
        /\ Val(parsed).content = text
        /\ Val(parsed).resources = <<>>

\* a text with RESOURCES: and lines under it but no CONTENT:, blank at both ends
C16_Witness ==
    /\ IsSet(parsed)
    /\ text = <<" ", "RESOURCES:", "a", "\n">>
    /\ Val(parsed).content = text
    /\ Val(parsed).resources = <<>>

\* the lesson entries stored in dict d under exactly the key k
EntriesUnder(d, k) ==
    LET at == {n \in 1..Len(d) : d[n].key = k}
    IN IF at = {} THEN <<>> ELSE d[CHOOSE n \in at : TRUE].value

C19_HandlerAnswers ==
    response # NoResponse =>
        /\ response.status \in {200, 500}
        /\ response.status = 200 <=> result.kind = "returned"
        /\ result.kind = "returned" =>
              /\ response.body = result.course
              /\ IsSet(response.body)
        /\ result.kind = "raised" =>
              /\ response.status = 500
              /\ response.detail = <<"Failed to generate course: ">> \o result.message
              /\ response.body = None

\* a failure of the Structure stage's call has been answered with 500
C19_Witness ==
    /\ response.status = 500
    /\ Contains(response.detail, <<"Failed to generate course: ", "Course generation failed: ">>)
    /\ \E n \in 1..Len(calls) : calls[n].agent = "structure" /\ ~calls[n].outcome.ok

\* stage k of the chain was entered without the field it requires
MissingPrerequisite(k) ==
    CASE k = 3 -> ~structure_has_prerequisite(chain[2])
      [] k = 4 -> ~content_has_prerequisite(chain[3])
      [] k = 5 -> ~(TruthyDict(chain[4].course_structure) /\ TruthySeq(chain[4].content_data))

\* C20: the state a stage returns when it is invoked without its required
\* predecessor field has error set and keeps, with the same value, every
\* field that was set in its input state.
C20_MissingPrerequisiteKeepsFields ==
    \A k \in 3..Len(chain) :
        MissingPrerequisite(k) =>
            /\ ErrorSet(chain[k])
            /\ chain[k].brief = chain[k - 1].brief
            /\ \A f \in {"target_audience", "course_duration", "research_data",
                         "course_structure", "content_data"} :
                  IsSet(chain[k - 1][f]) => chain[k][f] = chain[k - 1][f]

\* the result field stage k of the chain populates, and those of earlier stages
NewField(k) ==
    CASE k = 2 -> "research_data" [] k = 3 -> "course_structure"
      [] k = 4 -> "content_data" [] k = 5 -> "final_course"
EarlierFields(k) ==
    CASE k = 2 -> {} [] k = 3 -> {"research_data"}
      [] k = 4 -> {"research_data", "course_structure"}
      [] k = 5 -> {"research_data", "course_structure", "content_data"}

\* stage k of the chain took none of its error returns: it had the field it
\* requires and, for Structure, its generation call returned
StageSucceeded(k) ==
    CASE k = 2 -> TRUE
      [] k = 3 -> /\ structure_has_prerequisite(chain[2])
                  /\ CallsOf("structure") # <<>>
                  /\ CallsOf("structure")[1].outcome.ok
      [] k = 4 -> content_has_prerequisite(chain[3])
      [] k = 5 -> ~MissingPrerequisite(5)

\* the state a successful stage returns
SuccessCarriesOver ==
    \A k \in 2..Len(chain) :
        StageSucceeded(k) =>
            /\ IsSet(chain[k][NewField(k)])
            /\ chain[k].error = None
            /\ chain[k].brief = chain[k - 1].brief
            /\ chain[k].target_audience = chain[k - 1].target_audience
            /\ chain[k].course_duration = chain[k - 1].course_duration
            /\ \A f \in EarlierFields(k) :
                  /\ IsSet(chain[k - 1][f])
                  /\ chain[k][f] = chain[k - 1][f]

\* no step changes a state that is already in the chain
SnapshotsKept ==
    \A k \in 1..Len(chain) : Len(chain') >= k /\ chain'[k] = chain[k]

\* C21: every stage leaves the state it was given unchanged and returns a
\* new one; when the stage succeeds the returned state has the stage's own
\* field populated, error unset, and the request fields and every field of
\* the earlier stages with the value they had in its input.
C21_StagesReplaceState == []SuccessCarriesOver /\ [][SnapshotsKept]_vars

\* all four stages have succeeded: the last state holds the four result
\* fields and the initial state still holds none
C21_Witness ==
    /\ Len(chain) = 5
    /\ \A k \in 2..5 : StageSucceeded(k)
    /\ Populated(chain[5]) = {"research_data", "course_structure", "content_data", "final_course"}
    /\ Populated(chain[1]) = {}
    /\ Populated(chain[3]) = {"research_data", "course_structure"}
    /\ IsSet(chain[5].target_audience)

\* the lessons of a skeleton in declared order, each with its module's title
RECURSIVE LessonsInOrder(_)
LessonsInOrder(modules) ==
    IF modules = <<>> THEN <<>>
    ELSE [j \in 1..Len(Head(modules).lessons) |->
             [module_title |-> Head(modules).title,
              lesson_title |-> Head(modules).lessons[j].title]]
         \o LessonsInOrder(Tail(modules))

\* the content calls made so far, by what they were made for
LessonsCalled ==
    [n \in 1..Len(CallsOf("content")) |->
        [module_title |-> CallsOf("content")[n].module_title,
         lesson_title |-> CallsOf("content")[n].lesson_title]]

\* C22: the content calls of a request are, in order, one call per lesson of
\* the skeleton, modules in declared order and lessons in declared order
\* within a module: at any time the calls made are the first lessons of that
\* order, each call has ended before the next is made, and once Content has
\* returned there is exactly one call per lesson, whichever calls raised.
C22_OneCallPerLessonInOrder ==
    /\ ~StructureSucceeded => CallsOf("content") = <<>>
    /\ StructureSucceeded =>
          /\ IsPrefix(LessonsCalled, LessonsInOrder(Skeleton))
          /\ Len(chain) >= 4 => LessonsCalled = LessonsInOrder(Skeleton)
          /\ Len(SelectSeq(trace, LAMBDA e : e = StageEvent("call", "content")))
                = Len(CallsOf("content"))

\* Content has returned after three calls for two modules of the same title,
\* the first call having raised
C22_Witness ==
    /\ Len(chain) >= 4
    /\ StructureSucceeded
    /\ Len(Skeleton) = 2
    /\ Skeleton[1].title = Skeleton[2].title
    /\ Len(CallsOf("content")) = 3
    /\ ~CallsOf("content")[1].outcome.ok
    /\ CallsOf("content")[2].outcome.ok

\* the titles of a sequence of modules, lessons or lesson entries
TitlesOf(xs) == [n \in 1..Len(xs) |-> xs[n].title]

\* C23: once Content has succeeded, the keys of content_data are exactly the
\* module titles of course_structure, each once, and the entries under a key
\* are titled, one for one and in order, as the lessons of a skeleton module
\* of that title.
C23_ContentKeyedBySkeletonTitles ==
    (Len(chain) >= 4 /\ StageSucceeded(4)) =>
        LET content_data == Val(chain[4].content_data)
        IN /\ {content_data[n].key : n \in 1..Len(content_data)}
                 = {Skeleton[i].title : i \in 1..Len(Skeleton)}
           /\ \A n, m \in 1..Len(content_data) :
                 content_data[n].key = content_data[m].key => n = m
           /\ \A n \in 1..Len(content_data) :
                 \E i \in 1..Len(Skeleton) :
                    /\ Skeleton[i].title = content_data[n].key
                    /\ TitlesOf(content_data[n].value) = TitlesOf(Skeleton[i].lessons)

\* two modules of different titles, three lessons, one failed call
C23_Witness ==
    /\ Len(chain) >= 4
    /\ StageSucceeded(4)
    /\ Len(Val(chain[4].content_data)) = 2
    /\ Len(Val(chain[4].content_data)[1].value) = 2
    /\ Len(Val(chain[4].content_data)[2].value) = 1
    /\ Cardinality(FailedLessonCalls) = 1

\* research_data is present and holds resources
HasResources(research_data) ==
    IsSet(research_data) /\ "resources" \in DOMAIN Val(research_data)

\* C24: Finalize fails exactly when course_structure or content_data is
\* missing, whatever research_data is; the final course it builds has
\* references equal to research_data.resources when research_data is present
\* and has resources, and the empty list otherwise.
C24_ReferencesFromResearch ==
    Len(chain) >= 2 =>
        LET research_data == chain[1].research_data
        IN /\ ErrorSet(chain[2]) <=> ~(TruthyDict(chain[1].course_structure)
                                       /\ TruthySeq(chain[1].content_data))
           /\ ~ErrorSet(chain[2]) => IsSet(chain[2].final_course)
           /\ IsSet(chain[2].final_course) =>
                 Val(chain[2].final_course).references =
                     IF HasResources(research_data) THEN Val(research_data).resources
                     ELSE <<>>

\* a course with the two resources of the research as its references
C24_Witness ==
    /\ Len(chain) >= 2
    /\ IsSet(chain[2].final_course)
    /\ HasResources(chain[1].research_data)
    /\ Len(Val(chain[2].final_course).references) = 2
    /\ Val(chain[2].final_course).references[1] = "Journal of Microfinance"

\* Finalize has returned: its state is then the last of the chain
FinalizeReturned == \E p \in 1..Len(trace) : trace[p] = StageEvent("return", "finalize")

\* C25: every state finalize_course returns has error set or final_course
\* set, so should_end answers "end" for it: the graph finishes, and Finalize
\* runs at most once in a request.
C25_FinalizeAlwaysEnds ==
    /\ Len(SelectSeq(trace, LAMBDA e : e = StageEvent("start", "finalize"))) <= 1
    /\ FinalizeReturned =>
          LET last == chain[Len(chain)]
          IN /\ ErrorSet(last) \/ TruthyDict(last.final_course)
             /\ should_end(last) = "end"
             /\ pc \in {"end", "done"}

\* Finalize has ended a request with an error of its own, and the graph
\* has finished
C25_Witness ==
    /\ Len(chain) = 5
    /\ pc = "end"
    /\ ~ErrorSet(chain[4])
    /\ ErrorSet(chain[5])
    /\ ~IsSet(chain[5].final_course)

\* C26: every request terminates: whatever the brief, the parsed structure
\* and the outcomes of the generation calls, generate_course eventually
\* returns a course or raises, provided every call returns or raises.
C26_EveryRequestEnds == <>(pc = "done" /\ result.kind \in {"returned", "raised"})

\* a request has ended after five calls, one of which raised
C26_Witness ==
    /\ pc = "done"
    /\ result # Pending
    /\ Len(calls) = 5
    /\ \E n \in 1..Len(calls) : ~calls[n].outcome.ok

\* C27: when the generation call of the Structure stage raises with message
\* m, generate_course ends by raising a failure whose message contains m.
C27_FirstFailureReachesCaller ==
    \A n \in 1..Len(calls) :
        (calls[n].agent = "structure" /\ ~calls[n].outcome.ok /\ pc = "done") =>
            /\ result.kind = "raised"
            /\ Contains(result.message, calls[n].outcome.msg)

\* C28: when the Structure stage returns a course structure with zero
\* modules and no generation call fails, Content and Finalize set no error
\* and generate_course returns a course whose module list is empty.
C28_ZeroModulesSucceed ==
    (/\ pc = "done"
     /\ StructureSucceeded
     /\ Skeleton = <<>>
     /\ \A n \in 1..Len(calls) : calls[n].outcome.ok) =>
        /\ ~ErrorSet(chain[4])
        /\ ~ErrorSet(chain[5])
        /\ result.kind = "returned"
        /\ Val(result.course).modules = <<>>

\* the blocks of the parsed text, and whether a block holds a research header
TextBlocks == split(text, <<"\n", "\n">>)
HoldsResearchHeader(block) ==
    \E k \in 1..Len(ResearchHeaders) : Contains(block, <<ResearchHeaders[k]>>)

\* the field opened by a block that holds a header: that of the first of
\* the four headers, in the parser's order, that the block contains
OpenedBy(block) ==
    LET k == CHOOSE i \in 1..Len(ResearchHeaders) :
                 /\ Contains(block, <<ResearchHeaders[i]>>)
                 /\ \A j \in 1..(i - 1) : ~Contains(block, <<ResearchHeaders[j]>>)
    IN ResearchField(ResearchHeaders[k])

\* C29: a last block that matches no header is appended to the section
\* opened by the latest block holding a header (after a newline for summary
\* and insights, as further non-empty trimmed lines for key_concepts and
\* resources), every other field being what the text without that block
\* gives; with no section opened, the block changes no field.
C29_HeaderlessBlockContinues ==
    (IsSet(parsed) /\ ~HoldsResearchHeader(TextBlocks[Len(TextBlocks)])) =>
        LET n == Len(TextBlocks)
            block == TextBlocks[n]
            before == parse_research_result(join(SubSeq(TextBlocks, 1, n - 1), <<"\n", "\n">>))
            opened == {m \in 1..(n - 1) : HoldsResearchHeader(TextBlocks[m])}
        IN IF opened = {}
           THEN Val(parsed) = [summary |-> <<>>, key_concepts |-> <<>>,
                               resources |-> <<>>, insights |-> <<>>]
           ELSE LET latest == CHOOSE m \in opened : \A q \in opened : q <= m
                    field == OpenedBy(TextBlocks[latest])
                IN /\ \A g \in ResearchKeys \ {field} : Val(parsed)[g] = before[g]
                   /\ field \in {"summary", "insights"} =>
                         Val(parsed)[field] = before[field] \o <<"\n">> \o block
                   /\ field \in {"key_concepts", "resources"} =>
                         Val(parsed)[field] = before[field] \o NonEmptyTrimmedLines(block)

\* key concepts continued by a block of two lines after a dropped first block
C29_Witness ==
    /\ IsSet(parsed)
    /\ Len(TextBlocks) = 3
    /\ ~HoldsResearchHeader(TextBlocks[1])
    /\ TextBlocks[1] # <<>>
    /\ HoldsResearchHeader(TextBlocks[2])
    /\ OpenedBy(TextBlocks[2]) = "key_concepts"
    /\ TextBlocks[3] = <<"b", "\n", " ", "\n", "a", " ">>
    /\ Val(parsed).key_concepts = <<<<"a">>, <<"b">>, <<"b">>, <<"a">>>>
    /\ Val(parsed).summary = <<>>

\* the field each structure header fills
StructureField(header) ==
    CASE header = "COURSE TITLE:" -> "course_title"
      [] header = "COURSE DESCRIPTION:" -> "course_description"
      [] header = "RATIONALE:" -> "rationale"

HoldsStructureHeader(block) ==
    \E k \in 1..Len(StructureHeaders) : Contains(block, <<StructureHeaders[k]>>)

\* the block is matched by the structure parser: it holds one of the three
\* headers or starts, once trimmed, with "MODULE "
MatchedByStructure(block) ==
    HoldsStructureHeader(block) \/ startswith(strip(block), <<"MODULE", " ">>)

\* the field opened by a block that holds a structure header
StructureOpenedBy(block) ==
    LET k == CHOOSE i \in 1..Len(StructureHeaders) :
                 /\ Contains(block, <<StructureHeaders[i]>>)
                 /\ \A j \in 1..(i - 1) : ~Contains(block, <<StructureHeaders[j]>>)
    IN StructureField(StructureHeaders[k])

\* C30: a last block with text that matches no header, when the latest
\* matched block before it opened COURSE TITLE:, COURSE DESCRIPTION: or
\* RATIONALE:, is appended after a newline to that section's text.
C30_StructureBlockContinues ==
    IsSet(parsed) =>
        LET n == Len(TextBlocks)
            block == TextBlocks[n]
            before == parse_structure_result(join(SubSeq(TextBlocks, 1, n - 1), <<"\n", "\n">>))
            matched == {m \in 1..(n - 1) : MatchedByStructure(TextBlocks[m])}
            latest == CHOOSE m \in matched : \A q \in matched : q <= m
        IN (/\ ~MatchedByStructure(block)
            /\ strip(block) # <<>>
            /\ matched # {}
            /\ HoldsStructureHeader(TextBlocks[latest])) =>
               LET field == StructureOpenedBy(TextBlocks[latest])
               IN Val(parsed)[field] = before[field] \o <<"\n">> \o strip(block)

\* the first of the headers, in the given order, that the block contains
FirstHeaderIn(block, headers) ==
    headers[CHOOSE i \in 1..Len(headers) :
                /\ Contains(block, <<headers[i]>>)
                /\ \A j \in 1..(i - 1) : ~Contains(block, <<headers[j]>>)]

\* the parser that produced parsed, told by the keys of its result
ParsedByResearch == IsSet(parsed) /\ DOMAIN Val(parsed) = ResearchKeys
ParsedByStructure == IsSet(parsed) /\ DOMAIN Val(parsed) # ResearchKeys

\* the text without its last block
TextBefore ==
    join(SubSeq(TextBlocks, 1, Len(TextBlocks) - 1), <<"\n", "\n">>)

\* C31: a last block that holds recognized headers goes entirely to the
\* first of them in the parser's order (research: RESEARCH SUMMARY:, KEY
\* CONCEPTS:, RESOURCES:, INSIGHTS:; structure: COURSE TITLE:, COURSE
\* DESCRIPTION:, RATIONALE:, then the "MODULE " prefix): that header's field
\* is the block's text without the header, and every other field, the
\* module list included, is what the text without the block gives.
C31_FirstHeaderWins ==
    LET block == TextBlocks[Len(TextBlocks)]
    IN /\ (ParsedByResearch /\ HoldsResearchHeader(block)) =>
             LET header == FirstHeaderIn(block, ResearchHeaders)
                 field == ResearchField(header)
                 before == parse_research_result(TextBefore)
                 body == strip(remove(block, header))
             IN /\ \A g \in ResearchKeys \ {field} : Val(parsed)[g] = before[g]
                /\ Val(parsed)[field] =
                      IF field \in {"summary", "insights"} THEN body
                      ELSE NonEmptyTrimmedLines(body)
       /\ (ParsedByStructure /\ HoldsStructureHeader(block)) =>
             LET header == FirstHeaderIn(block, StructureHeaders)
                 field == StructureField(header)
                 before == parse_structure_result(TextBefore)
             IN /\ \A g \in DOMAIN Val(parsed) \ {field} : Val(parsed)[g] = before[g]
                /\ Val(parsed)[field] = strip(remove(block, header))
       /\ (ParsedByStructure /\ ~HoldsStructureHeader(block)
              /\ startswith(strip(block), <<"MODULE", " ">>)) =>
             LET before == parse_structure_result(TextBefore)
             IN /\ \A g \in DOMAIN Val(parsed) \ {"modules"} : Val(parsed)[g] = before[g]
                /\ Len(Val(parsed).modules) = Len(before.modules) + 1

\* a module block followed by a block that starts with "MODULE " and holds
\* COURSE DESCRIPTION:, parsed as structure: one module, and a description
C31_Witness ==
    /\ ParsedByStructure
    /\ Len(TextBlocks) = 2
    /\ startswith(TextBlocks[2], <<"MODULE", " ">>)
    /\ Contains(TextBlocks[2], <<"COURSE DESCRIPTION:">>)
    /\ Len(Val(parsed).modules) = 1
    /\ Contains(Val(parsed).course_description, <<"MODULE">>)

\* the title a bullet line gives its lesson: the trimmed text after the
\* first colon of the line, or the line without its leading "- "
BulletTitle(line) ==
    LET colon == Find(line, <<":">>)
    IN IF colon > 0 THEN strip(SubSeq(line, colon + 1, Len(line)))
       ELSE strip(SubSeq(line, 3, Len(line)))

\* C32: the module parsed from a block that starts with "MODULE " and holds
\* no header is titled by the block's first line, "MODULE " prefix kept, and
\* has one lesson per later line that starts, once trimmed, with "- ", in
\* line order: its title is the trimmed text after the line's first colon,
\* or the line without the leading "- " when it has no colon, and its content
\* is the empty string; other lines give no lesson.
C32_ModuleTitleAndLessons ==
    IsSet(parsed) =>
        LET modules == Val(parsed).modules
            blocks == PlainModuleBlocks
        IN /\ Len(modules) = Len(blocks)
           /\ \A i \in 1..Len(blocks) :
                 LET lines == split(blocks[i], <<"\n">>)
                     trimmed == [n \in 1..Len(lines) |-> strip(lines[n])]
                     bullets == SelectSeq(Tail(trimmed), LAMBDA l : startswith(l, <<"-", " ">>))
                 IN /\ modules[i].title = trimmed[1]
                    /\ startswith(modules[i].title, <<"MODULE", " ">>)
                    /\ modules[i].lessons =
                          [j \in 1..Len(bullets) |->
                              [title |-> BulletTitle(bullets[j]), content |-> <<>>]]

\* a module whose lines are an indented bullet without colon, a line that
\* is no bullet, and a "- Lesson" line with two colons
C32_Witness ==
    /\ IsSet(parsed)
    /\ Len(TextBlocks) = 1
    /\ Len(split(text, <<"\n">>)) = 4
    /\ Len(Val(parsed).modules) = 1
    /\ Val(parsed).modules[1].title = <<"MODULE", " ", "b">>
    /\ Val(parsed).modules[1].lessons =
          <<[title |-> <<"a">>, content |-> <<>>],
            [title |-> <<"a", ":", "b">>, content |-> <<>>]>>

\* C33: when both CONTENT: and RESOURCES: are present, content is the text
\* before the first RESOURCES: with CONTENT: removed and trimmed, and
\* resources are the non-empty trimmed lines of all the text after that
\* first RESOURCES:, later occurrences of RESOURCES: included.
C33_SplitOnceAtFirstResources ==
    (/\ IsSet(parsed)
     /\ Contains(text, <<"CONTENT:">>)
     /\ Contains(text, <<"RESOURCES:">>)) =>
        LET first == Find(text, <<"RESOURCES:">>)
        IN /\ Val(parsed).content = strip(remove(SubSeq(text, 1, first - 1), "CONTENT:"))
           /\ Val(parsed).resources =
                 NonEmptyTrimmedLines(SubSeq(text, first + 1, Len(text)))

\* the returned module is the given one apart from a quality_review entry
AnnotatesOnly ==
    IsSet(parsed) =>
        LET module == Val(parsed)
            given == Val(original_module)
        IN /\ module.title = given.title
           /\ module.lessons = given.lessons
           /\ DOMAIN module \ {"quality_review"} = DOMAIN given \ {"quality_review"}
           /\ DOMAIN given \subseteq DOMAIN module

Between(from, to) ==
    LET i == Find(text, <<from>>)
        rest == SubSeq(text, i + 1, Len(text))
        j == Find(rest, <<to>>)
    IN strip(IF j = 0 THEN rest ELSE SubSeq(rest, 1, j - 1))

\* C35: whenever the review text contains MODULE REVIEW: the returned
\* module carries the trimmed text between it and IMPROVEMENTS:, and
\* whenever it contains IMPROVEMENTS: it carries the trimmed text between it
\* and LESSON REVIEWS:, with or without a REVISED CONTENT: section.
C35_ReviewSectionsExtracted ==
    IsSet(parsed) =>
        /\ Contains(text, <<"MODULE REVIEW:">>) =>
              /\ "quality_review" \in DOMAIN Val(parsed)
              /\ Val(parsed).quality_review.module_review
                    = Between("MODULE REVIEW:", "IMPROVEMENTS:")
        /\ Contains(text, <<"IMPROVEMENTS:">>) =>
              /\ "quality_review" \in DOMAIN Val(parsed)
              /\ Val(parsed).quality_review.improvements
                    = Between("IMPROVEMENTS:", "LESSON REVIEWS:")

\* module `reviewed` has the title of `given` and its lessons, field by
\* field and in order, and nothing else
SameModule(reviewed, given) ==
    /\ DOMAIN reviewed = {"title", "lessons"}
    /\ reviewed.title = given.title
    /\ Len(reviewed.lessons) = Len(given.lessons)
    /\ \A j \in 1..Len(given.lessons) :
          /\ reviewed.lessons[j].title = given.lessons[j].title
          /\ reviewed.lessons[j].content = given.lessons[j].content
          /\ reviewed.lessons[j].resources = given.lessons[j].resources

\* C36: when review_course returns, the course it returns has the
\* course_title, description and references of its input course, the same
\* modules in the same order with the same lesson titles, content and
\* resources, whatever the review texts were, and no module of it carries
\* a quality_review entry.
C36_ReviewCoursePreservesContent ==
    (IsSet(review) /\ Val(review).pc = "returned") =>
        LET given == Val(review).course
            reviewed == Val(Val(review).returned)
        IN /\ reviewed.course_title = given.course_title
           /\ reviewed.description = given.description
           /\ reviewed.references = given.references
           /\ Len(reviewed.modules) = Len(given.modules)
           /\ \A i \in 1..Len(given.modules) :
                 SameModule(reviewed.modules[i], given.modules[i])

\* a course of two modules with references has been returned after a
\* review that carried revised content for the last module
C36_Witness ==
    /\ IsSet(review)
    /\ Val(review).pc = "returned"
    /\ Len(Val(review).course.modules) = 2
    /\ Val(review).course.references # <<>>
    /\ IsSet(Val(review).improved_module_dict)
    /\ "quality_review" \in DOMAIN Val(Val(review).improved_module_dict)
    /\ Val(Val(review).improved_module_dict).quality_review.revised_content_notes = <<"b">>

====
